---- MODULE Spec2Model ----
(***************************************************************************)
(* Future Cities Playground (src/app.js): the seeded generator, the        *)
(* scoring function, the configuration state with its input handlers and   *)
(* URL loader, and the two rendering passes that share the generator       *)
(* stream (renderStaticScene and the antenna replay of renderCityCanvas).  *)
(*                                                                         *)
(* JavaScript numbers are IEEE-754 doubles.  Two exact encodings are used: *)
(*  - scoring (computeScores) is modelled bit-exactly: a double is a       *)
(*    sign and a fixed-point magnitude with 56 fractional bits, and every  *)
(*    product and sum is rounded to 53 significant bits, ties to even;     *)
(*  - the generator state is an integer below 2^31 (the products           *)
(*    s * 16807 stay below 2^53, so the doubles hold them exactly); the    *)
(*    geometry derived from the draws is kept as exact rationals           *)
(*    q + r/2147483646, i.e. the real-number value of the source           *)
(*    expression before the final binary rounding.                         *)
(***************************************************************************)
EXTENDS Integers, Sequences, FiniteSets, TLC

(***************************************************************************)
(* Number: IEEE-754 double arithmetic as computeScores uses it.            *)
(* A finite double is [s, i, a, b]: s * (i + a/2^28 + b/2^56), s = 1 or -1.*)
(* NaN is the record [nan |-> TRUE].                                       *)
(***************************************************************************)
TwoP14 == 128 * 128
TwoP28 == TwoP14 * TwoP14
TwoP27 == TwoP28 \div 2

NaN == [nan |-> TRUE]
IsNaN(x) == "nan" \in DOMAIN x

RECURSIVE Log2(_)
Log2(n) == IF n < 2 THEN 0 ELSE 1 + Log2(n \div 2)

RECURSIVE Pow2(_)
Pow2(e) == IF e <= 0 THEN 1 ELSE 2 * Pow2(e - 1)

\* The unit in the last place of magnitude x, counted in units of 2^-56:
\* 2^(e-52) * 2^56 with e the binary exponent of x. Magnitudes below 2^-4
\* have at most 52 bits at this resolution and are exact (unit 1); the
\* encoding covers magnitudes below 2^24, far above any score term.
UlpUnits(x) ==
  IF x.i >= 1 THEN Pow2(Log2(x.i) + 4)
  ELSE IF x.a >= Pow2(24) THEN Pow2(Log2(x.a) - 24)
  ELSE 1

\* Carry the limbs i, a, b (a, b possibly >= 2^28) back into range.
Carry(s, i, a, b) ==
  LET a1 == a + (b \div TwoP28)
  IN  [s |-> s, i |-> i + (a1 \div TwoP28), a |-> a1 % TwoP28, b |-> b % TwoP28]

\* Round an exact fixed-point magnitude to 53 significant bits, to nearest,
\* ties to even; sticky says that the exact value lies strictly above x.
\* u is the unit in the last place of x and rem the part of x below it.
RoundUnits(x, sticky, u, rem) ==
  IF 2 * rem > u \/ (2 * rem = u /\ (sticky \/ (x.b \div u) % 2 = 1))
  THEN Carry(x.s, x.i, x.a, (x.b - rem) + u)
  ELSE [x EXCEPT !.b = x.b - rem]

\* A zero result carries the sign +.
PositiveZero(r) == IF r.i = 0 /\ r.a = 0 /\ r.b = 0 THEN [r EXCEPT !.s = 1] ELSE r

RoundAt(x, sticky, u) == PositiveZero(RoundUnits(x, sticky, u, x.b % u))

RoundDouble(x, sticky) == RoundAt(x, sticky, UlpUnits(x))

FromInt(n) == [s |-> IF n < 0 THEN -1 ELSE 1, i |-> IF n < 0 THEN -n ELSE n,
               a |-> 0, b |-> 0]

\* The double a decimal literal n/d denotes (0 < d, 1/8 <= n/d < 2^24):
\* 56 fractional bits by long division, then rounded.
Literal(n, d) ==
  LET r0 == n % d
      d1 == (r0 * TwoP14) \div d
      r1 == (r0 * TwoP14) % d
      d2 == (r1 * TwoP14) \div d
      r2 == (r1 * TwoP14) % d
      d3 == (r2 * TwoP14) \div d
      r3 == (r2 * TwoP14) % d
      d4 == (r3 * TwoP14) \div d
      r4 == (r3 * TwoP14) % d
  IN  RoundDouble([s |-> 1, i |-> n \div d, a |-> d1 * TwoP14 + d2,
                   b |-> d3 * TwoP14 + d4], r4 # 0)

\* k * limb + c for 0 <= k < 2^14, as [lo, hi] with value hi * 2^28 + lo.
MulLimb(k, limb, c) ==
  LET t == k * (limb % TwoP14) + (c % TwoP14)
      m == k * (limb \div TwoP14) + (t \div TwoP14) + (c \div TwoP14)
  IN  [lo |-> (m % TwoP14) * TwoP14 + (t % TwoP14), hi |-> m \div TwoP14]

\* Magnitude comparison and the exact magnitude sum and difference.
MagLess(x, y) ==
  \/ x.i < y.i
  \/ x.i = y.i /\ x.a < y.a
  \/ x.i = y.i /\ x.a = y.a /\ x.b < y.b

MagSub(s, x, y) ==
  LET bb == x.b - y.b
      b1 == IF bb < 0 THEN bb + TwoP28 ELSE bb
      aa == x.a - y.a - (IF bb < 0 THEN 1 ELSE 0)
      a1 == IF aa < 0 THEN aa + TwoP28 ELSE aa
  IN  [s |-> s, i |-> x.i - y.i - (IF aa < 0 THEN 1 ELSE 0), a |-> a1, b |-> b1]

\* x * y for an integer-valued x and a double y (JavaScript `*`).
NumMul(x, y) ==
  IF IsNaN(x) \/ IsNaN(y) THEN NaN
  ELSE LET k  == x.i
           lb == MulLimb(k, y.b, 0)
           la == MulLimb(k, y.a, lb.hi)
       IN  RoundDouble([s |-> x.s * y.s, i |-> k * y.i + la.hi,
                        a |-> la.lo, b |-> lb.lo], FALSE)

\* x + y (JavaScript `+` on two numbers).
NumAdd(x, y) ==
  IF IsNaN(x) \/ IsNaN(y) THEN NaN
  ELSE RoundDouble(IF x.s = y.s
                   THEN Carry(x.s, x.i + y.i, x.a + y.a, x.b + y.b)
                   ELSE IF MagLess(x, y) THEN MagSub(y.s, y, x)
                        ELSE MagSub(x.s, x, y),
                   FALSE)

\* An integer-valued double as a TLA+ integer.
IsInteger(x) == ~IsNaN(x) /\ x.a = 0 /\ x.b = 0
IntOf(x) == x.s * x.i

\* Math.round: the nearest integer, ties toward +infinity; NaN stays NaN.
MathRound(x) ==
  IF IsNaN(x) THEN NaN
  ELSE IF x.s = 1
       THEN FromInt(x.i + (IF x.a >= TwoP27 THEN 1 ELSE 0))
       ELSE FromInt(-(x.i + (IF x.a > TwoP27 \/ (x.a = TwoP27 /\ x.b > 0)
                              THEN 1 ELSE 0)))

\* Math.min(x, y) on integer-valued doubles or NaN.
MathMin(x, y) ==
  IF IsNaN(x) \/ IsNaN(y) THEN NaN ELSE IF IntOf(y) < IntOf(x) THEN y ELSE x

\* n / 4 followed by Math.round, for an integer-valued n: the quotient by 4
\* is exact in binary, so the result is floor(n/4 + 1/2).
RoundQuarter(n) == IF IsNaN(n) THEN NaN ELSE FromInt((IntOf(n) + 2) \div 4)

(***************************************************************************)
(* JavaScript values other than numbers that a table lookup can yield.     *)
(***************************************************************************)
Undefined   == [undefined |-> TRUE]
ObjectValue == [object |-> TRUE]      \* a function or an object: truthy
StringValue == [string |-> TRUE]      \* the result of number + object

IsNumber(v) == IsNaN(v) \/ "i" \in DOMAIN v

\* Property names every object literal inherits from Object.prototype.
ObjectPrototypeKeys ==
  {"constructor", "toString", "valueOf", "hasOwnProperty", "isPrototypeOf",
   "propertyIsEnumerable", "toLocaleString", "__proto__"}

\* table[key] on an object literal: an own property, else an inherited one,
\* else undefined.
Lookup(table, key) ==
  IF key \in DOMAIN table THEN FromInt(table[key])
  ELSE IF key \in ObjectPrototypeKeys THEN ObjectValue
  ELSE Undefined

\* v || d: d when v is falsy (undefined, NaN, 0).
OrDefault(v, d) ==
  IF v = Undefined \/ IsNaN(v) THEN FromInt(d)
  ELSE IF IsNumber(v) /\ v.i = 0 /\ v.a = 0 /\ v.b = 0 THEN FromInt(d)
  ELSE v

\* x + y: numeric addition on two numbers; with an object or a string on
\* either side the operands are concatenated as strings.
JsAdd(x, y) == IF IsNumber(x) /\ IsNumber(y) THEN NumAdd(x, y) ELSE StringValue

\* x * y: both operands converted to numbers; a function or object gives NaN.
JsMul(x, y) == IF IsNumber(x) /\ IsNumber(y) THEN NumMul(x, y) ELSE NaN

\* Math.min(100, Math.round(v)): a string that is a number followed by the
\* text of a function or object converts to NaN.
CapRoundUncapped(v) == IF IsNumber(v) THEN MathRound(v) ELSE NaN
CapRound(v) == IF IsNumber(v) THEN MathMin(FromInt(100), MathRound(v)) ELSE NaN

(***************************************************************************)
(* Scoring (computeScores).                                                *)
(***************************************************************************)
energyBonus    == [solar |-> 20, fusion |-> 15, wind |-> 18, tidal |-> 22]
transportBonus == [aerial |-> 10, hyperloop |-> 15, teleport |-> 8]
envBonus       == [urban |-> 5, coastal |-> 12, mountain |-> 10, desert |-> 3,
                   arctic |-> 7]

\* The decimal literals of computeScores as doubles.
D0_6  == Literal(6, 10)
D0_15 == Literal(15, 100)
D0_7  == Literal(7, 10)
D0_3  == Literal(3, 10)
D0_25 == Literal(25, 100)
D0_2  == Literal(2, 10)
D1_5  == Literal(15, 10)

\* 100 - x on a number.
HundredMinus(x) == NumAdd(FromInt(100), IF IsNaN(x) THEN NaN ELSE [x EXCEPT !.s = -x.s])

sustainability(c) ==
  CapRound(JsAdd(JsAdd(JsAdd(JsMul(c.greenery, D0_6),
                             OrDefault(Lookup(energyBonus, c.energy), 10)),
                       JsMul(HundredMinus(c.population), D0_15)),
                 OrDefault(Lookup(envBonus, c.environment), 5)))

innovation(c) ==
  CapRound(JsAdd(JsAdd(JsMul(c.tech, D0_7),
                       OrDefault(Lookup(transportBonus, c.transport), 10)),
                 JsMul(OrDefault(Lookup(energyBonus, c.energy), 10), D0_3)))

quality(c) ==
  CapRound(JsAdd(JsAdd(JsAdd(JsMul(c.greenery, D0_3),
                             JsMul(HundredMinus(c.population), D0_25)),
                       JsMul(c.tech, D0_2)),
                 JsMul(OrDefault(Lookup(envBonus, c.environment), 5), D1_5)))

resilienceWithoutBase(c) ==
  CapRound(JsAdd(JsAdd(JsAdd(JsMul(HundredMinus(c.population), D0_2),
                             JsMul(c.greenery, D0_2)),
                       JsMul(c.tech, D0_3)),
                 OrDefault(Lookup(energyBonus, c.energy), 10)))

resilience(c) ==
  CapRound(JsAdd(JsAdd(JsAdd(JsAdd(JsMul(HundredMinus(c.population), D0_2),
                                   JsMul(c.greenery, D0_2)),
                             JsMul(c.tech, D0_3)),
                       OrDefault(Lookup(energyBonus, c.energy), 10)),
                 FromInt(10)))

livability(s, i, q, r) ==
  RoundQuarter(NumAdd(NumAdd(NumAdd(s, i), q), r))

\* The object computeScores returns, from its four rounded metrics.
ScoreObject(s, i, q, r) ==
  [sustainability |-> s, innovation |-> i, quality |-> q, resilience |-> r,
   livability |-> livability(s, i, q, r)]

computeScores(c) ==
  ScoreObject(sustainability(c), innovation(c), quality(c), resilience(c))

(***************************************************************************)
(* Exact rationals q + r/Divisor (0 <= r < Divisor) for values derived     *)
(* from generator draws.                                                   *)
(***************************************************************************)
Multiplier == 16807
Modulus    == 2147483647
Divisor    == 2147483646

Whole(n) == [q |-> n, r |-> 0]

Plus(x, y) ==
  LET over == x.r >= Divisor - y.r
  IN  [q |-> x.q + y.q + (IF over THEN 1 ELSE 0),
       r |-> IF over THEN x.r - (Divisor - y.r) ELSE x.r + y.r]

Neg(x) == IF x.r = 0 THEN [q |-> -x.q, r |-> 0]
          ELSE [q |-> -x.q - 1, r |-> Divisor - x.r]

\* v / Divisor for an integer 0 <= v < 2^31.
Frac(v) == IF v >= Divisor THEN [q |-> 1, r |-> v - Divisor] ELSE [q |-> 0, r |-> v]

\* c * x for an integer 0 <= c < 2^15, without leaving 32 bits: with
\* x.r = r1 * 2^16 + r0 and c * r1 = a1 * 2^15 + a0,
\* c * x.r = a1 * 2^31 + a0 * 2^16 + c * r0 and 2^31 = Divisor + 2.
MulSmall(c, x) ==
  LET a == c * (x.r \div 65536)
  IN  Plus(Plus(Plus(Whole(c * x.q + a \div 32768), Frac(2 * (a \div 32768))),
                Frac((a % 32768) * 65536)),
           Frac(c * (x.r % 65536)))

\* k * x for an integer 0 <= k < 2^28: the whole part, and the fraction
\* multiplied by the two 14-bit halves of k.
Times(k, x) ==
  Plus(Whole(k * x.q),
       Plus(MulSmall(k \div TwoP14, MulSmall(TwoP14, Frac(x.r))),
            MulSmall(k % TwoP14, Frac(x.r))))

Greater(x, y) == x.q > y.q \/ (x.q = y.q /\ x.r > y.r)

Floor(x) == x.q

(***************************************************************************)
(* Seeded generator (createSeededRNG).                                     *)
(***************************************************************************)
\* s = (s * 16807 + 0) % 2147483647. The product stays below 2^53, so the
\* double arithmetic of the source is exact; it is computed here without
\* leaving 32 bits: with Modulus = q * Multiplier + r,
\* Multiplier * s = Multiplier * (s % q) - r * (s \div q)  (mod Modulus).
NextState(s) ==
  LET q == Modulus \div Multiplier
      r == Modulus % Multiplier
      t == Multiplier * (s % q) - r * (s \div q)
  IN  IF t < 0 THEN t + Modulus ELSE t

\* return (s - 1) / 2147483646
RngValueOffByOne(s) == [q |-> 0, r |-> s]
RngValue(s) == [q |-> 0, r |-> s - 1]

\* A generator closure: its private state s and the number of calls made.
createSeededRNG(seed) == [s |-> seed, n |-> 0]

\* One call rng(): the closure afterwards, and the value returned.
RngCall(g) == [s |-> NextState(g.s), n |-> g.n + 1]
RngResult(g) == RngValue(NextState(g.s))

(***************************************************************************)
(* Scene geometry.  A scene input sc is the configuration fields the       *)
(* renderer reads plus the canvas pixel size: [population, greenery, tech, *)
(* energy, transport, w, h].  Lengths are exact rationals counted in units *)
(* of 1/(3000 * buildingCount) pixel, which makes every length of the      *)
(* source an integer plus an integer multiple of a draw.                   *)
(***************************************************************************)
\* Math.floor(15 + tech * 0.2), Math.floor(6 + population * 0.15),
\* Math.floor(greenery * 0.2), Math.min(Math.floor(tech * 0.03), 3): for the
\* integers 0..100 the doubles give these integer quotients.
starCount(sc)     == 15 + sc.tech \div 5
buildingCount(sc) == 6 + (3 * sc.population) \div 20
treeCount(sc)     == sc.greenery \div 5
vehicleCount(sc)  == IF (3 * sc.tech) \div 100 < 3 THEN (3 * sc.tech) \div 100 ELSE 3

\* scale = w / 600
scale(sc) == 5 * sc.w * buildingCount(sc)
\* groundY = h * 0.6
groundY(sc) == 1800 * sc.h * buildingCount(sc)
\* maxHeight = h * 0.12 + (population / 100) * h * 0.3
maxHeight(sc) == (360 * sc.h + 9 * sc.population * sc.h) * buildingCount(sc)

\* jitter = (rng() - 0.5) * w * 0.04, for the draw u
Jitter(u, sc) ==
  Plus(Times(120 * sc.w * buildingCount(sc), u), Whole(-60 * sc.w * buildingCount(sc)))
\* (i / buildingCount) * w
SlotX(i, sc) == Whole(3000 * i * sc.w)
\* bw = (18 + rng() * 22) * scale
BuildingWidth(u, sc) == Plus(Whole(18 * scale(sc)), Times(22 * scale(sc), u))
\* bw / 2
HalfWidth(u, sc) == Plus(Whole(9 * scale(sc)), Times(11 * scale(sc), u))
\* bh = (30 + rng() * maxHeight / scale) * scale
BuildingHeight(u, sc) == Plus(Whole(30 * scale(sc)), Times(maxHeight(sc), u))
\* Math.floor(bh / (8 * scale)), Math.floor(bw / (8 * scale))
WindowRows(bh, sc) == Floor(bh) \div (8 * scale(sc))
WindowCols(bw, sc) == Floor(bw) \div (8 * scale(sc))
\* bh > maxHeight * 0.6
Tall(bh, sc) == Greater(Times(5, bh), Whole(3 * maxHeight(sc)))
\* by - 12 * scale, with by = groundY - bh
TipY(bh, sc) == Plus(Whole(groundY(sc) - 12 * scale(sc)), Neg(bh))
\* chance > 0.45
Lit(chance) == Greater(Times(20, chance), Whole(9))

(***************************************************************************)
(* renderStaticScene: the draws of the star loop and of one building.      *)
(***************************************************************************)
\* One star: sx, sy, ss, alpha.
StaticStar(g) == RngCall(RngCall(RngCall(RngCall(g))))

RECURSIVE StaticStars(_, _)
StaticStars(g, k) ==
  IF k = 0 THEN g
  ELSE LET g4 == StaticStar(g) IN IF g4.n > g.n THEN StaticStars(g4, k - 1) ELSE g4

\* One window cell: the chance draw, then the lit draw of a lit cell or the
\* call that "consumes to keep the sequence aligned" of an unlit one.
\* w is [g, lit]: the generator and the number of lit cells so far.
StaticCellUnaligned(w) ==
  LET chance == RngResult(w.g)
      g1     == RngCall(w.g)
  IN  IF Lit(chance) THEN [g |-> RngCall(g1), lit |-> w.lit + 1]
      ELSE [g |-> g1, lit |-> w.lit]
StaticCell(w) ==
  LET chance == RngResult(w.g)
      g1     == RngCall(w.g)
  IN  IF Lit(chance) THEN [g |-> RngCall(g1), lit |-> w.lit + 1]
      ELSE [g |-> RngCall(g1), lit |-> w.lit]

RECURSIVE StaticWindowRow(_, _)
StaticWindowRow(w, wx) ==
  IF wx = 0 THEN w
  ELSE LET w1 == StaticCell(w) IN IF w1.g.n > w.g.n THEN StaticWindowRow(w1, wx - 1) ELSE w1

RECURSIVE StaticWindows(_, _, _)
StaticWindows(w, wy, cols) ==
  IF wy = 0 THEN w
  ELSE LET w1 == StaticWindowRow(w, cols)
       IN  IF w1.g.n >= w.g.n THEN StaticWindows(w1, wy - 1, cols) ELSE w1

\* The head of one iteration of the building loop for index i, from
\* generator g: jitter, bx, bw, bh, by and the antenna of the building. The
\* record keeps which call of the generator (1-based) fed each role, and the
\* generator as the window loop finds it.
StaticHeader(g, i, sc) ==
  LET uj   == RngResult(g)
      g1   == RngCall(g)
      uw   == RngResult(g1)
      g2   == RngCall(g1)
      uh   == RngResult(g2)
      g3   == RngCall(g2)
      bw   == BuildingWidth(uw, sc)
      bh   == BuildingHeight(uh, sc)
  IN  [index |-> i, first |-> g.n, jitterAt |-> g1.n, widthAt |-> g2.n,
       heightAt |-> g3.n, header |-> g3.n - g.n,
       rows |-> WindowRows(bh, sc), cols |-> WindowCols(bw, sc),
       bw |-> bw, bh |-> bh,
       antenna |-> Tall(bh, sc) /\ sc.tech > 50,
       tipX |-> Plus(Plus(SlotX(i, sc), Jitter(uj, sc)), HalfWidth(uw, sc)),
       tipY |-> TipY(bh, sc),
       g |-> g3]

\* The window loop of the building with head hd.
StaticBuildingWindows(hd) == StaticWindows([g |-> hd.g, lit |-> 0], hd.rows, hd.cols)

\* The whole iteration: the head hd and the outcome win of its window loop.
StaticBuilding(hd, win) ==
  [cells |-> hd.rows * hd.cols, cellDraws |-> win.g.n - hd.g.n, lit |-> win.lit,
   end |-> win.g.n] @@ hd

(***************************************************************************)
(* renderCityCanvas: the antenna replay.                                   *)
(***************************************************************************)
\* for (...) { rng(); rng(); rng(); rng(); }
RECURSIVE ReplayStars(_, _)
ReplayStars(g, k) ==
  IF k = 0 THEN g
  ELSE LET g4 == RngCall(RngCall(RngCall(RngCall(g))))
       IN  IF g4.n > g.n THEN ReplayStars(g4, k - 1) ELSE g4

\* rng(); rng(); // chance + lit
ReplayCell(g) == RngCall(RngCall(g))

RECURSIVE ReplayWindowRow(_, _)
ReplayWindowRow(g, wx) ==
  IF wx = 0 THEN g
  ELSE LET g1 == ReplayCell(g) IN IF g1.n > g.n THEN ReplayWindowRow(g1, wx - 1) ELSE g1

RECURSIVE ReplayWindows(_, _, _)
ReplayWindows(g, wy, cols) ==
  IF wy = 0 THEN g
  ELSE LET g1 == ReplayWindowRow(g, cols)
       IN  IF g1.n >= g.n THEN ReplayWindows(g1, wy - 1, cols) ELSE g1

\* The head of one iteration of the replay loop for index i, from
\* generator g.
ReplayHeader(g, i, sc) ==
  LET g1   == RngCall(g)                 \* rng(); // jitter
      uw   == RngResult(g1)              \* bw = (18 + rng() * 22) * scale
      g2   == RngCall(g1)
      g3   == RngCall(g2)                \* rng(); // consume bw rng
      uh   == RngResult(g3)              \* bh = (30 + rng() * ...) * scale
      g4   == RngCall(g3)
      bw   == BuildingWidth(uw, sc)
      bh   == BuildingHeight(uh, sc)
  IN  [index |-> i, first |-> g.n, jitterAt |-> g1.n, widthAt |-> g2.n,
       heightAt |-> g4.n, header |-> g4.n - g.n,
       rows |-> WindowRows(bh, sc), cols |-> WindowCols(bw, sc),
       bw |-> bw, bh |-> bh,
       dot |-> Tall(bh, sc),
       dotX |-> Plus(SlotX(i, sc), HalfWidth(uw, sc)),
       dotY |-> TipY(bh, sc),
       g |-> g4]

\* The window loop of the replay for the building with head hd.
ReplayBuildingWindows(hd) == ReplayWindows(hd.g, hd.rows, hd.cols)

\* The whole iteration: the head hd and the generator gw after its windows.
ReplayBuilding(hd, gw) ==
  [cells |-> hd.rows * hd.cols, cellDraws |-> gw.n - hd.g.n, end |-> gw.n] @@ hd

(***************************************************************************)
(* Strings and parseInt.  A string that is parsed is a sequence of         *)
(* one-character strings.                                                  *)
(***************************************************************************)
DigitChars == <<"0", "1", "2", "3", "4", "5", "6", "7", "8", "9">>
WhiteSpace == {" ", "\t", "\n"}

IsDigit(ch) == \E d \in 1..10 : DigitChars[d] = ch
DigitValue(ch) == (CHOOSE d \in 1..10 : DigitChars[d] = ch) - 1

RECURSIVE SkipWhiteSpace(_)
SkipWhiteSpace(str) ==
  IF str # <<>> /\ Head(str) \in WhiteSpace THEN SkipWhiteSpace(Tail(str)) ELSE str

\* The value of the longest prefix of decimal digits of str, continuing acc.
RECURSIVE ParseDigits(_, _)
ParseDigits(str, acc) ==
  IF str # <<>> /\ IsDigit(Head(str))
  THEN ParseDigits(Tail(str), 10 * acc + DigitValue(Head(str)))
  ELSE acc

\* parseInt(str) with no radix, for strings without a 0x prefix: leading white
\* space is skipped, a sign is read, then decimal digits up to the first
\* other character; NaN when there is no digit.
parseInt(str) ==
  LET t    == SkipWhiteSpace(str)
      neg  == t # <<>> /\ Head(t) = "-"
      body == IF t # <<>> /\ Head(t) \in {"-", "+"} THEN Tail(t) ELSE t
  IN  IF body = <<>> \/ ~IsDigit(Head(body)) THEN NaN
      ELSE FromInt(IF neg THEN -ParseDigits(body, 0) ELSE ParseDigits(body, 0))

\* The decimal digits of n >= 0 as a string to parse (an input's value).
RECURSIVE Digits(_)
Digits(n) ==
  IF n < 10 THEN <<DigitChars[n + 1]>>
  ELSE Append(Digits(n \div 10), DigitChars[(n % 10) + 1])

\* String(x) for an integer-valued number or NaN.
NumToString(x) == IF IsNaN(x) THEN "NaN" ELSE ToString(IntOf(x))

(***************************************************************************)
(* Bounds and input alphabets.                                             *)
(***************************************************************************)
MaxEvents == 2        \* UI events after startup
MaxCalls  == 3        \* calls per generator in SpecRNG
MaxFrames == 4        \* calls of requestAnimationFrame in SpecLoop

Environments == {"urban", "coastal", "mountain", "desert", "arctic"}
Energies     == {"solar", "fusion", "wind", "tidal"}
Transports   == {"aerial", "hyperloop", "teleport"}

\* Slider positions (the range inputs run from 0 to 100) and the toggle
\* buttons and options the model exercises.
SliderValues == {0, 31, 100}
EnergyButtons == {"solar", "wind"}
TransportButtons == {"aerial", "hyperloop"}
EnvironmentOptions == {"urban", "arctic"}

\* Query parameters: absent, or present with a string value.
Absent == [has |-> FALSE]
Param(v) == [has |-> TRUE, value |-> v]
UrlEnv == {Absent, Param("coastal"), Param("swamp"), Param("constructor")}
UrlPop == {Absent, Param(<<"3", "0">>), Param(<<"1", "5", "0">>), Param(<<"a", "b", "c">>)}
UrlNrg == {Absent, Param("toString")}
UrlGrn == {Absent, Param(<<"-", "5">>)}
UrlTrn == {Absent, Param("warp")}
UrlTch == {Absent, Param(<<"1", "2", ".", "7">>)}

\* Canvas layouts: CSS size and devicePixelRatio.
CanvasLayouts == {[offsetWidth |-> 600, offsetHeight |-> 300, dpr |-> 1],
                  [offsetWidth |-> 320, offsetHeight |-> 200, dpr |-> 2]}

\* Configurations SpecScores scores.
ScoreValues == {0, 14, 31, 45, 60, 75, 100}

VARIABLES
  configState,        \* the configuration record
  scores,             \* the scores last shown or returned, or NoScores
  pc,                 \* startup position: "loadFromURL", "initialPreview", "ready"
  events,             \* UI events handled so far
  canvas,             \* the city canvas' layout
  lastConfigKey,      \* key of the cached static scene
  staticSceneCache,   \* the cached raster, or Null
  rasters,            \* offscreen canvases created so far
  call,               \* the most recent call of renderCityCanvas, or Null
  timers,             \* pending timers: records [id, name, due]
  inView,             \* what configObserver last reported: "unreported", "in", "out"
  frames,             \* ids of the requested animation frames not yet run or cancelled
  cityAnimFrame,      \* the variable cityAnimFrame: 0 (undefined) or a frame id
  frameIds,           \* ids requestAnimationFrame has handed out
  rngSeed,            \* SpecRNG: the seed each generator was created with
  rngCell,            \* SpecRNG: the state variable s of each closure
  rngOut,             \* SpecRNG: the values each generator has returned
  scene,              \* SpecRender: the scene input of the frame
  rpc,                \* SpecRender: position inside renderCityCanvas
  staticRng,          \* SpecRender: rng of renderStaticScene
  replayRng,          \* SpecRender: rng of the antenna replay
  staticBuildings,    \* SpecRender: the static pass, one record per building
  replayBuildings,    \* SpecRender: the replay, one record per building
  solarRng,           \* SpecRender: solarRng of renderStaticScene, or Null
  firstPass,          \* SpecRender: the outcome of the previous renderStaticScene, or Null
  capsules,           \* SpecRender: the hyperloop capsules the overlay drew
  clock,              \* the time in ms since the script ran
  timerIds,           \* ids setTimeout has handed out
  resizeTimer,        \* the variable timer of the debounced resize listener (0: undefined)
  lastCityFrame,      \* the variable lastCityFrame
  lastResize,         \* the time of the last resize event, or Null
  cityCtx,            \* whether cityCtx holds a 2D context
  firstLoad,          \* the tuple and key of an earlier page load, or Null
  query,              \* the query string the share button built, or Null
  modal,              \* the scenario modal: [active, hidden, overflow]
  toast               \* the toast: [created, show, calledAt], or Null before showToast

appVars == <<configState, scores, pc, events, canvas, lastConfigKey,
             staticSceneCache, rasters, call>>
rngVars == <<rngSeed, rngCell, rngOut>>
renderVars == <<scene, rpc, staticRng, replayRng, staticBuildings, replayBuildings,
                solarRng, firstPass, capsules>>
loopVars == <<timers, inView, frames, cityAnimFrame, frameIds>>
timeVars == <<clock, timerIds, resizeTimer, lastCityFrame, lastResize>>
uiVars == <<cityCtx, firstLoad, query, modal, toast>>
vars == <<appVars, rngVars, renderVars, loopVars, timeVars, uiVars>>

Null     == [null |-> TRUE]
NoScores == [none |-> TRUE]

DefaultConfig ==
  [environment |-> "urban", population |-> FromInt(60), energy |-> "solar",
   greenery |-> FromInt(45), transport |-> "aerial", tech |-> FromInt(75)]

(***************************************************************************)
(* Scene cache (getConfigKey, renderCityCanvas).                           *)
(***************************************************************************)
getConfigKey(c, cv) ==
  c.environment \o "|" \o NumToString(c.population) \o "|" \o c.energy \o "|"
  \o NumToString(c.greenery) \o "|" \o c.transport \o "|" \o NumToString(c.tech)
  \o "|" \o ToString(cv.offsetWidth) \o "|" \o ToString(cv.offsetHeight)

\* themes[configState.environment] || themes.urban: an own theme, the urban
\* theme on a miss, or an inherited property that has no colours.
ThemeOf(env) ==
  IF env \in Environments THEN env
  ELSE IF env \in ObjectPrototypeKeys THEN "inherited"
  ELSE "urban"

\* renderStaticScene as the cache sees it: a new offscreen canvas. With a
\* theme that has no colours addColorStop throws and nothing is returned.
StaticSceneThrows(c) == ThemeOf(c.environment) = "inherited"

\* The offscreen canvas a call of renderStaticScene returns: a new object of
\* w x h pixels drawn for configuration c; key is the currentKey of the call
\* of renderCityCanvas that rendered it.
NewRaster(c, cv) ==
  [id |-> rasters + 1, w |-> cv.offsetWidth * cv.dpr, h |-> cv.offsetHeight * cv.dpr,
   theme |-> ThemeOf(c.environment), config |-> c, key |-> getConfigKey(c, cv)]

\* if (!cityCtx) return;
NoContext == ~cityCtx

\* if (cityCanvas): the guard of the initial timer, the resize listener, the
\* frame loop and the export button.
CanvasPresentAssumed == TRUE
CanvasPresent == canvas # Null

\* What one call of renderCityCanvas did: the configuration and the layout
\* it read, the lastConfigKey its caller found, whether it invoked
\* renderStaticScene, the raster it passed to drawImage (Null when it drew
\* none), and whether the resize handler made it. tick alternates so that
\* two equal calls in a row are two records.
CallRecord(c, invoked, blit, resized) ==
  [tick |-> IF call = Null THEN 0 ELSE 1 - call.tick, config |-> c, layout |-> canvas,
   found |-> lastConfigKey, invoked |-> invoked, blit |-> blit, resize |-> resized]

\* renderCityCanvas() with configuration c when lastConfigKey holds lastKey:
\* nothing without a context; otherwise the cache is rebuilt when the key
\* differs; a renderStaticScene that throws leaves the cache and the key as
\* they were and draws nothing.
RenderFromKeyFirst(c, lastKey, resized) ==
  LET currentKey == getConfigKey(c, canvas)
  IN  IF NoContext
      THEN /\ lastConfigKey' = lastKey
           /\ UNCHANGED <<staticSceneCache, rasters>>
           /\ call' = CallRecord(c, FALSE, Null, resized)
      ELSE
      IF currentKey # lastKey
      THEN IF StaticSceneThrows(c)
           THEN /\ lastConfigKey' = currentKey
                /\ UNCHANGED <<staticSceneCache, rasters>>
                /\ call' = CallRecord(c, TRUE, Null, resized)
           ELSE /\ staticSceneCache' = NewRaster(c, canvas)
                /\ lastConfigKey' = currentKey
                /\ rasters' = rasters + 1
                /\ call' = CallRecord(c, TRUE, NewRaster(c, canvas), resized)
      ELSE /\ lastConfigKey' = lastKey
           /\ UNCHANGED <<staticSceneCache, rasters>>
           /\ call' = CallRecord(c, FALSE, staticSceneCache, resized)
RenderFrom(c, lastKey, resized) ==
  LET currentKey == getConfigKey(c, canvas)
  IN  IF NoContext
      THEN /\ lastConfigKey' = lastKey
           /\ UNCHANGED <<staticSceneCache, rasters>>
           /\ call' = CallRecord(c, FALSE, Null, resized)
      ELSE
      IF currentKey # lastKey
      THEN IF StaticSceneThrows(c)
           THEN /\ lastConfigKey' = lastKey
                /\ UNCHANGED <<staticSceneCache, rasters>>
                /\ call' = CallRecord(c, TRUE, Null, resized)
           ELSE /\ staticSceneCache' = NewRaster(c, canvas)
                /\ lastConfigKey' = currentKey
                /\ rasters' = rasters + 1
                /\ call' = CallRecord(c, TRUE, NewRaster(c, canvas), resized)
      ELSE /\ lastConfigKey' = lastKey
           /\ UNCHANGED <<staticSceneCache, rasters>>
           /\ call' = CallRecord(c, FALSE, staticSceneCache, resized)

\* The call renderCityCanvas() with configuration c throws (inside
\* renderStaticScene).
RenderThrows(c) ==
  /\ ~NoContext
  /\ getConfigKey(c, canvas) # lastConfigKey
  /\ StaticSceneThrows(c)

\* renderCityCanvas() with configuration c.
RenderCityCanvas(c) == RenderFrom(c, lastConfigKey, FALSE)

\* updatePreview() once the configuration is c.
UpdatePreview(c) ==
  /\ scores' = computeScores(c)
  /\ RenderCityCanvas(c)

(***************************************************************************)
(* Spec: startup and the configurator's input handlers.                    *)
(***************************************************************************)
Generators == {"g1", "g2"}

RngIdle ==
  /\ rngSeed = [g \in Generators |-> 0]
  /\ rngCell = [g \in Generators |-> 0]
  /\ rngOut = [g \in Generators |-> <<>>]

RenderIdle ==
  /\ scene = Null
  /\ rpc = "idle"
  /\ staticRng = Null
  /\ replayRng = Null
  /\ staticBuildings = <<>>
  /\ replayBuildings = <<>>
  /\ solarRng = Null
  /\ firstPass = Null
  /\ capsules = <<>>

LoopIdle ==
  /\ timers = {}
  /\ inView = "unreported"
  /\ frames = {}
  /\ cityAnimFrame = 0
  /\ frameIds = 0

TimeIdle ==
  /\ clock = 0
  /\ timerIds = 0
  /\ resizeTimer = 0
  /\ lastCityFrame = 0
  /\ lastResize = Null

UiIdle ==
  /\ cityCtx = TRUE
  /\ firstLoad = Null
  /\ query = Null
  /\ modal = Null
  /\ toast = Null

AppIdle ==
  /\ configState = DefaultConfig
  /\ scores = NoScores
  /\ pc = "idle"
  /\ events = 0
  /\ canvas = Null
  /\ lastConfigKey = ""
  /\ staticSceneCache = Null
  /\ rasters = 0
  /\ call = Null

Init ==
  /\ configState = DefaultConfig
  /\ scores = NoScores
  /\ pc = "loadFromURL"
  /\ events = 0
  /\ canvas \in CanvasLayouts
  /\ lastConfigKey = ""
  /\ staticSceneCache = Null
  /\ rasters = 0
  /\ call = Null
  /\ RngIdle
  /\ RenderIdle
  /\ LoopIdle
  /\ TimeIdle
  /\ UiIdle

\* loadFromURL() with the parameters env, pop, nrg, grn, trn, tch of the
\* query string: every parameter present is stored as it comes.
LoadParams(env, pop, nrg, grn, trn, tch) ==
  /\ pc = "loadFromURL"
  /\ configState' =
         [environment |-> IF env.has THEN env.value ELSE configState.environment,
          population  |-> IF pop.has THEN parseInt(pop.value) ELSE configState.population,
          energy      |-> IF nrg.has THEN nrg.value ELSE configState.energy,
          greenery    |-> IF grn.has THEN parseInt(grn.value) ELSE configState.greenery,
          transport   |-> IF trn.has THEN trn.value ELSE configState.transport,
          tech        |-> IF tch.has THEN parseInt(tch.value) ELSE configState.tech]
  /\ pc' = "initialPreview"
  /\ UNCHANGED <<scores, events, canvas, lastConfigKey, staticSceneCache, rasters, call>>
  /\ UNCHANGED <<rngVars, renderVars, loopVars, timeVars, uiVars>>

\* loadFromURL() at startup, for the query strings of the Url sets.
LoadFromURL ==
  \E env \in UrlEnv, pop \in UrlPop, nrg \in UrlNrg, grn \in UrlGrn,
     trn \in UrlTrn, tch \in UrlTch :
    LoadParams(env, pop, nrg, grn, trn, tch)

\* The initial updatePreview() at the end of the script.
InitialPreview ==
  /\ pc = "initialPreview"
  /\ UpdatePreview(configState)
  /\ pc' = "ready"
  /\ UNCHANGED <<configState, events, canvas>>
  /\ UNCHANGED <<rngVars, renderVars, loopVars, timeVars, uiVars>>

\* A handler that stores c and calls updatePreview().
Handle(c) ==
  /\ pc = "ready"
  /\ events < MaxEvents
  /\ configState' = c
  /\ UpdatePreview(c)
  /\ events' = events + 1
  /\ UNCHANGED <<pc, canvas>>
  /\ UNCHANGED <<rngVars, renderVars, loopVars, timeVars, uiVars>>

PopulationInput ==
  \E v \in SliderValues :
    Handle([configState EXCEPT !.population = parseInt(Digits(v))])

GreeneryInput ==
  \E v \in SliderValues :
    Handle([configState EXCEPT !.greenery = parseInt(Digits(v))])

TechInput ==
  \E v \in SliderValues :
    Handle([configState EXCEPT !.tech = parseInt(Digits(v))])

EnergyToggle ==
  \E v \in EnergyButtons : Handle([configState EXCEPT !.energy = v])

TransportToggle ==
  \E v \in TransportButtons : Handle([configState EXCEPT !.transport = v])

EnvironmentChange ==
  \E v \in EnvironmentOptions : Handle([configState EXCEPT !.environment = v])

Next ==
  \/ LoadFromURL
  \/ InitialPreview
  \/ PopulationInput
  \/ GreeneryInput
  \/ TechInput
  \/ EnergyToggle
  \/ TransportToggle
  \/ EnvironmentChange

Spec == Init /\ [][Next]_vars

(***************************************************************************)
(* SpecScores: computeScores applied to valid configurations.              *)
(***************************************************************************)
ScoreConfigs ==
  [environment : Environments, population : {FromInt(v) : v \in ScoreValues},
   energy : Energies, greenery : {FromInt(v) : v \in ScoreValues},
   transport : Transports, tech : {FromInt(v) : v \in ScoreValues}]

InitScores ==
  /\ configState \in ScoreConfigs
  /\ scores = NoScores
  /\ pc = "scoring"
  /\ events = 0
  /\ canvas = Null
  /\ lastConfigKey = ""
  /\ staticSceneCache = Null
  /\ rasters = 0
  /\ call = Null
  /\ RngIdle
  /\ RenderIdle
  /\ LoopIdle
  /\ TimeIdle
  /\ UiIdle

\* const scores = computeScores();
ComputeScores ==
  /\ pc = "scoring"
  /\ scores' = computeScores(configState)
  /\ pc' = "scored"
  /\ UNCHANGED <<configState, events, canvas, lastConfigKey, staticSceneCache, rasters, call>>
  /\ UNCHANGED <<rngVars, renderVars, loopVars, timeVars, uiVars>>

NextScores == ComputeScores

SpecScores == InitScores /\ [][NextScores]_vars

(***************************************************************************)
(* SpecRNG: two closures returned by createSeededRNG, called in any order. *)
(***************************************************************************)
\* Seeds: the scene seeds 42 and 99, the ends of the range, the seed whose
\* successor is 1 (value 0) and the seed whose successor is Modulus - 1.
Seeds == {1, 42, 99, 739806647, 1407677000, Modulus - 1}

\* `let s = seed` is a local of the call: the closure g reads and writes the
\* cell of its own call.
SharedCell(g) == "g1"
StateCell(g) == g

InitRNG ==
  /\ AppIdle
  /\ RngIdle
  /\ RenderIdle
  /\ LoopIdle
  /\ TimeIdle
  /\ UiIdle

\* const g = createSeededRNG(seed)
CreateRNG ==
  \E g \in Generators, seed \in Seeds :
    /\ rngSeed[g] = 0
    /\ rngSeed' = [rngSeed EXCEPT ![g] = seed]
    /\ rngCell' = [rngCell EXCEPT ![StateCell(g)] = createSeededRNG(seed).s]
    /\ UNCHANGED <<rngOut, appVars, renderVars, loopVars, timeVars, uiVars>>

\* g()
CallRNG ==
  \E g \in Generators :
    /\ rngSeed[g] # 0
    /\ Len(rngOut[g]) < MaxCalls
    /\ rngCell' = [rngCell EXCEPT ![StateCell(g)] = NextState(rngCell[StateCell(g)])]
    /\ rngOut' = [rngOut EXCEPT ![g] = Append(@, RngValue(NextState(rngCell[StateCell(g)])))]
    /\ UNCHANGED <<rngSeed, appVars, renderVars, loopVars, timeVars, uiVars>>

NextRNG == CreateRNG \/ CallRNG

SpecRNG == InitRNG /\ [][NextRNG]_vars

(***************************************************************************)
(* SpecRender: one call of renderCityCanvas that rebuilds the static scene *)
(* and then draws the overlay, one loop iteration of a building loop per   *)
(* step.                                                                   *)
(***************************************************************************)
\* Canvas pixel sizes (offsetWidth * dpr, offsetHeight * dpr).
CanvasSizes == {[w |-> 600, h |-> 300], [w |-> 640, h |-> 400]}

Scenes ==
  {[population |-> p, greenery |-> gr, tech |-> t, energy |-> "solar",
    transport |-> tr, w |-> cs.w, h |-> cs.h] :
     p \in {0, 60, 100}, gr \in {0, 45}, t \in {30, 75, 100},
     tr \in {"aerial", "hyperloop", "teleport"}, cs \in CanvasSizes}

InitRender ==
  /\ AppIdle
  /\ RngIdle
  /\ LoopIdle
  /\ TimeIdle
  /\ UiIdle
  /\ solarRng = Null
  /\ firstPass = Null
  /\ capsules = <<>>
  /\ scene \in Scenes
  /\ rpc = "static"
  /\ staticRng = Null
  /\ replayRng = Null
  /\ staticBuildings = <<>>
  /\ replayBuildings = <<>>

\* const rng = createSeededRNG(42): a generator of this invocation, whatever
\* generator an earlier invocation left behind.
MainGeneratorKept(left) == IF left = Null THEN createSeededRNG(42) ELSE left
MainGenerator(left) == createSeededRNG(42)

\* renderStaticScene up to the end of the star loop.
StaticStarLoop ==
  /\ rpc = "static"
  /\ staticRng' = StaticStars(MainGenerator(staticRng), starCount(scene))
  /\ rpc' = "staticBuildings"
  /\ UNCHANGED <<scene, replayRng, staticBuildings, replayBuildings, solarRng, firstPass, capsules,
                 appVars, rngVars, loopVars, timeVars, uiVars>>

\* One iteration of the building loop of renderStaticScene.
StaticBuildingLoop ==
  /\ rpc = "staticBuildings"
  /\ Len(staticBuildings) < buildingCount(scene)
  /\ \E hd \in {StaticHeader(staticRng, Len(staticBuildings), scene)} :
       \E win \in {StaticBuildingWindows(hd)} :
         /\ staticBuildings' = Append(staticBuildings, StaticBuilding(hd, win))
         /\ staticRng' = win.g
  /\ UNCHANGED <<scene, rpc, replayRng, replayBuildings, solarRng, firstPass, capsules,
                 appVars, rngVars, loopVars, timeVars, uiVars>>

\* The draws of the tree loop (tx, ty, ts, greenVal per tree).
RECURSIVE StaticTrees(_, _)
StaticTrees(g, k) ==
  IF k = 0 THEN g
  ELSE LET g4 == RngCall(RngCall(RngCall(RngCall(g))))
       IN  IF g4.n > g.n THEN StaticTrees(g4, k - 1) ELSE g4

\* The draws of the vehicle loop (vx, vy per vehicle).
RECURSIVE StaticVehicles(_, _)
StaticVehicles(g, k) ==
  IF k = 0 THEN g
  ELSE LET g2 == RngCall(RngCall(g))
       IN  IF g2.n > g.n THEN StaticVehicles(g2, k - 1) ELSE g2

\* if (configState.tech > 40 && configState.transport === 'aerial')
VehiclesDrawnAnyTransport(sc) == sc.tech > 40
VehiclesDrawn(sc) == sc.tech > 40 /\ sc.transport = "aerial"

\* The variable the solar pass keeps its generator in: solarRng, a const of
\* its own beside rng.
SolarCellMain == "rng"
SolarCell == "solarRng"

\* The solar pass over the generators cells = [rng, solarRng]:
\* solarRng = createSeededRNG(99), then one draw for each of the 4 panels.
SolarPanels(cells) ==
  LET created == [cells EXCEPT ![SolarCell] = createSeededRNG(99)]
  IN  [created EXCEPT ![SolarCell] = RngCall(RngCall(RngCall(RngCall(created[SolarCell]))))]

\* The rest of renderStaticScene after the building loop: trees, vehicles,
\* and the solar panels; the other passes draw nothing from a generator.
StaticTail ==
  /\ rpc = "staticBuildings"
  /\ Len(staticBuildings) = buildingCount(scene)
  /\ \E gt \in {IF scene.greenery > 10 THEN StaticTrees(staticRng, treeCount(scene))
                ELSE staticRng} :
       \E gv \in {IF VehiclesDrawn(scene)
                  THEN StaticVehicles(gt, vehicleCount(scene))
                  ELSE gt} :
         \E cells \in {IF scene.energy = "solar"
                       THEN SolarPanels([rng |-> gv, solarRng |-> Null])
                       ELSE [rng |-> gv, solarRng |-> Null]} :
           /\ staticRng' = cells.rng
           /\ solarRng' = cells.solarRng
  /\ rpc' = "overlay"
  /\ UNCHANGED <<scene, replayRng, staticBuildings, replayBuildings, firstPass, capsules,
                 appVars, rngVars, loopVars, timeVars, uiVars>>

\* Date.now() of the calls of renderCityCanvas, as far as the capsules
\* see it: now / 80 modulo the canvas width. The values are multiples of 80,
\* which puts a capsule on a whole pixel.
CapsuleTimes == {0, 12000, 24000}

\* The static tube i, drawn by quadraticCurveTo(w / 2, py - 15 * scale, w, py)
\* from (0, py): the point of parameter u is at x = u * w and lies
\* 2 * (1 - u) * u * 15 * scale above py. The distance above py at x, in
\* units of 1 / (600 * w) pixel (scale = w / 600, u = x / w).
TubeRise(sc, x) == 2 * (sc.w - x) * x * 15

\* The capsule of tube i at time now: cx = (now / 80 + i * 350) % w,
\* t = cx / w, curveY = py - 15 * scale * 4 * t * (1 - t). rise is py - curveY
\* in units of 1 / (600 * w) pixel.
Capsule(sc, now, i) ==
  LET cx == (now \div 80 + i * 350) % sc.w
  IN  [tube |-> i, cx |-> cx, rise |-> 15 * 4 * cx * (sc.w - cx)]

\* The hyperloop capsules of the overlay, drawn before the antenna replay.
HyperloopCapsules ==
  /\ rpc = "overlay"
  /\ IF scene.transport = "hyperloop"
     THEN \E now \in CapsuleTimes :
            capsules' = <<Capsule(scene, now, 0), Capsule(scene, now, 1)>>
     ELSE capsules' = <<>>
  /\ rpc' = "antennas"
  /\ UNCHANGED <<scene, staticRng, replayRng, staticBuildings, replayBuildings,
                 solarRng, firstPass, appVars, rngVars, loopVars, timeVars, uiVars>>

\* if (configState.tech > 50) { ... star loop of the replay
ReplayStarLoop ==
  /\ rpc = "antennas"
  /\ scene.tech > 50
  /\ replayRng' = ReplayStars(createSeededRNG(42), starCount(scene))
  /\ rpc' = "replayBuildings"
  /\ UNCHANGED <<scene, staticRng, staticBuildings, replayBuildings, solarRng, firstPass, capsules,
                 appVars, rngVars, loopVars, timeVars, uiVars>>

\* tech <= 50: no antenna blink.
OverlayWithoutBlink ==
  /\ rpc = "antennas"
  /\ ~(scene.tech > 50)
  /\ rpc' = "done"
  /\ UNCHANGED <<scene, staticRng, replayRng, staticBuildings, replayBuildings,
                 solarRng, firstPass, capsules, appVars, rngVars, loopVars, timeVars, uiVars>>

\* One iteration of the building loop of the replay.
ReplayBuildingLoop ==
  /\ rpc = "replayBuildings"
  /\ Len(replayBuildings) < buildingCount(scene)
  /\ \E hd \in {ReplayHeader(replayRng, Len(replayBuildings), scene)} :
       \E gw \in {ReplayBuildingWindows(hd)} :
         /\ replayBuildings' = Append(replayBuildings, ReplayBuilding(hd, gw))
         /\ replayRng' = gw
  /\ UNCHANGED <<scene, rpc, staticRng, staticBuildings, solarRng, firstPass, capsules,
                 appVars, rngVars, loopVars, timeVars, uiVars>>

ReplayEnd ==
  /\ rpc = "replayBuildings"
  /\ Len(replayBuildings) = buildingCount(scene)
  /\ rpc' = "done"
  /\ UNCHANGED <<scene, staticRng, replayRng, staticBuildings, replayBuildings,
                 solarRng, firstPass, capsules, appVars, rngVars, loopVars, timeVars, uiVars>>

\* Energies of the next call.
NextEnergies == {"solar", "wind", "fusion"}

\* A later call of renderCityCanvas that renders the static scene again: the
\* energy toggle was clicked (or, with the energy as it was, the resize
\* handler cleared the key). firstPass keeps what the first invocation of
\* renderStaticScene drew.
NextRenderCall ==
  /\ rpc = "done"
  /\ firstPass = Null
  /\ firstPass' = [scene |-> scene, rng |-> staticRng, solarRng |-> solarRng,
                   buildings |-> staticBuildings]
  /\ \E e \in NextEnergies : scene' = [scene EXCEPT !.energy = e]
  /\ rpc' = "static"
  /\ staticBuildings' = <<>>
  /\ replayRng' = Null
  /\ replayBuildings' = <<>>
  /\ capsules' = <<>>
  /\ UNCHANGED <<staticRng, solarRng, appVars, rngVars, loopVars, timeVars, uiVars>>

NextRender ==
  \/ NextRenderCall
  \/ StaticStarLoop
  \/ StaticBuildingLoop
  \/ StaticTail
  \/ HyperloopCapsules
  \/ ReplayStarLoop
  \/ OverlayWithoutBlink
  \/ ReplayBuildingLoop
  \/ ReplayEnd

SpecRender == InitRender /\ [][NextRender]_vars

(***************************************************************************)
(* SpecCache: the page after loadFromURL when prefers-reduced-motion is    *)
(* set (no frame loop): the initial preview, the input handlers, the       *)
(* initial timer, window resizes with their debounced handler, a change of *)
(* display, and the export button.                                         *)
(***************************************************************************)
\* Canvas layouts a resize can lead to.
Layouts == CanvasLayouts \cup {[offsetWidth |-> 600, offsetHeight |-> 300, dpr |-> 2]}

\* window.devicePixelRatio of the displays.
PixelRatios == {1, 2}

\* Configurations loadFromURL leaves: the defaults, or ?env=constructor.
LoadedConfigs == {DefaultConfig, [DefaultConfig EXCEPT !.environment = "constructor"]}

\* Times the clock stops at (ms after the script ran), besides the times
\* at which a timer is due.
Instants == {30, 60, 100}

\* setTimeout(fn, ms) for the callback called name: a timer with a new id.
SetTimeout(pending, name, ms) ==
  pending \cup {[id |-> timerIds + 1, name |-> name, due |-> clock + ms]}

\* clearTimeout(id)
ClearTimeoutNothing(pending, id) == pending
ClearTimeout(pending, id) == {t \in pending : t.id # id}

\* The pending timers of callback name that are due.
Due(name) == {t \in timers : t.name = name /\ t.due <= clock}

\* Time passes, up to the next time a pending timer is due: timers run on
\* time.
Tick ==
  /\ pc = "ready"
  /\ \E t \in Instants \cup {x.due : x \in timers} :
       /\ t > clock
       /\ \A x \in timers : t <= x.due
       /\ clock' = t
  /\ UNCHANGED <<timerIds, resizeTimer, lastCityFrame, lastResize>>
  /\ UNCHANGED <<appVars, rngVars, renderVars, loopVars, uiVars>>

\* showToast(message) when the timers pending are `pending`: the element is
\* created on the first call, shown, and a timer of 3000 ms is set that
\* hides it.
ShowToast(pending) ==
  /\ toast' = [created |-> IF toast = Null THEN 1 ELSE toast.created,
               show |-> TRUE, calledAt |-> clock]
  /\ timers' = SetTimeout(pending, "toast", 3000)
  /\ timerIds' = timerIds + 1

\* () => { toastEl.classList.remove('show'); }
ToastTimer ==
  /\ pc = "ready"
  /\ \E t \in Due("toast") :
       /\ toast' = [toast EXCEPT !.show = FALSE]
       /\ timers' = timers \ {t}
  /\ UNCHANGED <<cityCtx, firstLoad, query, modal>>
  /\ UNCHANGED <<inView, frames, cityAnimFrame, frameIds, timeVars, appVars, rngVars, renderVars>>

\* The page once loadFromURL has returned, with the canvas and its context:
\* the initial timer is set.
InitCache ==
  /\ configState \in LoadedConfigs
  /\ scores = NoScores
  /\ pc = "initialPreview"
  /\ events = 0
  /\ canvas \in CanvasLayouts
  /\ lastConfigKey = ""
  /\ staticSceneCache = Null
  /\ rasters = 0
  /\ call = Null
  /\ timers = {[id |-> 1, name |-> "initial", due |-> 100]}
  /\ inView = "unreported"
  /\ frames = {}
  /\ cityAnimFrame = 0
  /\ frameIds = 0
  /\ clock = 0
  /\ timerIds = 1
  /\ resizeTimer = 0
  /\ lastCityFrame = 0
  /\ lastResize = Null
  /\ RngIdle
  /\ RenderIdle
  /\ UiIdle

\* setTimeout(() => { renderCityCanvas(); }, 100): runs once the script has
\* ended.
InitialTimer ==
  /\ pc = "ready"
  /\ \E t \in Due("initial") :
       /\ RenderCityCanvas(configState)
       /\ timers' = timers \ {t}
  /\ UNCHANGED <<configState, scores, pc, events, canvas>>
  /\ UNCHANGED <<inView, frames, cityAnimFrame, frameIds, timeVars, uiVars, rngVars, renderVars>>

\* The window is resized: the canvas gets a layout, and the debounced
\* listener clears its timer and sets it again. lastResize keeps the time of
\* the event and counts the runs of the handler since.
ResizeEvent ==
  /\ pc = "ready"
  /\ CanvasPresent
  /\ events < MaxEvents
  /\ canvas' \in IF canvas = Null THEN {Null} ELSE Layouts
  /\ timers' = SetTimeout(ClearTimeout(timers, resizeTimer), "resize", 200)
  /\ resizeTimer' = timerIds + 1
  /\ timerIds' = timerIds + 1
  /\ lastResize' = [at |-> clock, runs |-> 0]
  /\ events' = events + 1
  /\ UNCHANGED <<configState, scores, pc, lastConfigKey, staticSceneCache, rasters, call>>
  /\ UNCHANGED <<inView, frames, cityAnimFrame, frameIds, clock, lastCityFrame>>
  /\ UNCHANGED <<uiVars, rngVars, renderVars>>

\* The window moves to a display with another devicePixelRatio: the CSS
\* size stays and no resize event fires.
DisplayChange ==
  /\ pc = "ready"
  /\ CanvasPresent
  /\ events < MaxEvents
  /\ \E d \in PixelRatios \ {canvas.dpr} : canvas' = [canvas EXCEPT !.dpr = d]
  /\ events' = events + 1
  /\ UNCHANGED <<configState, scores, pc, lastConfigKey, staticSceneCache, rasters, call>>
  /\ UNCHANGED <<loopVars, timeVars, uiVars, rngVars, renderVars>>

\* lastConfigKey = ''; // Force cache invalidation on resize
ResizeKeyKept == lastConfigKey
ResizeKey == ""

\* The debounced resize handler, when its timer is due.
ResizeHandler ==
  /\ pc = "ready"
  /\ \E t \in Due("resize") :
       /\ RenderFrom(configState, ResizeKey, TRUE)
       /\ timers' = timers \ {t}
  /\ lastResize' = [lastResize EXCEPT !.runs = @ + 1]
  /\ UNCHANGED <<configState, scores, pc, events, canvas>>
  /\ UNCHANGED <<inView, frames, cityAnimFrame, frameIds>>
  /\ UNCHANGED <<clock, timerIds, resizeTimer, lastCityFrame, uiVars, rngVars, renderVars>>

\* The click handler of the export button: renderCityCanvas(), then the
\* canvas is saved and the toast shown, unless the render threw.
ExportClick ==
  /\ pc = "ready"
  /\ CanvasPresent
  /\ events < MaxEvents
  /\ RenderCityCanvas(configState)
  /\ IF RenderThrows(configState)
     THEN UNCHANGED <<toast, timers, timerIds>>
     ELSE ShowToast(timers)
  /\ events' = events + 1
  /\ UNCHANGED <<configState, scores, pc, canvas>>
  /\ UNCHANGED <<inView, frames, cityAnimFrame, frameIds>>
  /\ UNCHANGED <<clock, resizeTimer, lastCityFrame, lastResize>>
  /\ UNCHANGED <<cityCtx, firstLoad, query, modal, rngVars, renderVars>>

NextCache ==
  \/ InitialPreview
  \/ PopulationInput
  \/ GreeneryInput
  \/ TechInput
  \/ EnergyToggle
  \/ TransportToggle
  \/ EnvironmentChange
  \/ InitialTimer
  \/ ResizeEvent
  \/ DisplayChange
  \/ ResizeHandler
  \/ ExportClick
  \/ ToastTimer
  \/ Tick

SpecCache == InitCache /\ [][NextCache]_vars

(***************************************************************************)
(* SpecLoop: the page after loadFromURL without prefers-reduced-motion:    *)
(* the initial preview and timer, resizes and display changes, the reports *)
(* of configObserver and the frame callbacks of animateCity.               *)
(***************************************************************************)
\* requestAnimationFrame(animateCity): a new id, stored in cityAnimFrame.
RequestFrame(pending) ==
  /\ frameIds' = frameIds + 1
  /\ cityAnimFrame' = frameIds + 1
  /\ frames' = pending \cup {frameIds + 1}

\* The observer callback with one entry. The observer reports a change of
\* isIntersecting, or a crossing of the 0.1 threshold while the section
\* stays intersecting (isIntersecting true again).
ObserverCallback ==
  /\ pc = "ready"
  /\ CanvasPresent
  /\ \E isIntersecting \in BOOLEAN :
       IF isIntersecting
       THEN /\ frameIds < MaxFrames
            /\ RequestFrame(frames)
            /\ inView' = "in"
       ELSE /\ inView # "out"
            /\ frames' = frames \ {cityAnimFrame}
            /\ inView' = "out"
            /\ UNCHANGED <<cityAnimFrame, frameIds>>
  /\ UNCHANGED <<timers, appVars, rngVars, renderVars, timeVars, uiVars>>

\* const CITY_FRAME_INTERVAL = 50
CITY_FRAME_INTERVAL == 50

\* timestamp - lastCityFrame >= CITY_FRAME_INTERVAL
ElapsedAlways(timestamp) == TRUE
Elapsed(timestamp) == timestamp - lastCityFrame >= CITY_FRAME_INTERVAL

\* animateCity(timestamp), the callback of a requested frame, with the time
\* of the frame as timestamp: renders when CITY_FRAME_INTERVAL has elapsed
\* since the last rendered frame, then requests the next frame. A
\* renderStaticScene that throws ends the callback before the request.
AnimateCity ==
  /\ pc = "ready"
  /\ frameIds < MaxFrames
  /\ \E id \in frames :
       IF Elapsed(clock)
       THEN /\ lastCityFrame' = clock
            /\ RenderCityCanvas(configState)
            /\ IF RenderThrows(configState)
               THEN /\ frames' = frames \ {id}
                    /\ UNCHANGED <<cityAnimFrame, frameIds>>
               ELSE RequestFrame(frames \ {id})
       ELSE /\ RequestFrame(frames \ {id})
            /\ UNCHANGED <<lastCityFrame, lastConfigKey, staticSceneCache, rasters, call>>
  /\ UNCHANGED <<configState, scores, pc, events, canvas, timers, inView>>
  /\ UNCHANGED <<clock, timerIds, resizeTimer, lastResize, uiVars, rngVars, renderVars>>

NextLoop ==
  \/ InitialPreview
  \/ InitialTimer
  \/ ResizeEvent
  \/ DisplayChange
  \/ ResizeHandler
  \/ ObserverCallback
  \/ AnimateCity
  \/ Tick

SpecLoop == InitCache /\ [][NextLoop]_vars

(***************************************************************************)
(* SpecNoSurface: the page after loadFromURL when the city canvas is       *)
(* missing from the document, or is there but getContext('2d') returned    *)
(* null.                                                                   *)
(***************************************************************************)
InitNoSurface ==
  /\ configState = DefaultConfig
  /\ scores = NoScores
  /\ pc = "initialPreview"
  /\ events = 0
  /\ canvas \in CanvasLayouts \cup {Null}
  /\ cityCtx = FALSE
  /\ lastConfigKey = ""
  /\ staticSceneCache = Null
  /\ rasters = 0
  /\ call = Null
  /\ timers = IF CanvasPresent THEN {[id |-> 1, name |-> "initial", due |-> 100]} ELSE {}
  /\ timerIds = IF CanvasPresent THEN 1 ELSE 0
  /\ inView = "unreported"
  /\ frames = {}
  /\ cityAnimFrame = 0
  /\ frameIds = 0
  /\ clock = 0
  /\ resizeTimer = 0
  /\ lastCityFrame = 0
  /\ lastResize = Null
  /\ firstLoad = Null
  /\ query = Null
  /\ modal = Null
  /\ toast = Null
  /\ RngIdle
  /\ RenderIdle

\* The events of such a page: one of the configurator's handlers, the timers
\* and listeners the script installs, and the reports of configObserver.
NextNoSurface ==
  \/ InitialPreview
  \/ EnergyToggle
  \/ InitialTimer
  \/ ResizeEvent
  \/ ResizeHandler
  \/ ObserverCallback
  \/ Tick

SpecNoSurface == InitNoSurface /\ [][NextNoSurface]_vars

(***************************************************************************)
(* SpecKey: two loads of the page, each from a query string and on a       *)
(* canvas layout of its own, up to the initial preview. firstLoad keeps    *)
(* the Configuration, the layout and the cache key of the first.           *)
(***************************************************************************)
\* Query parameters of the two loads: loadFromURL stores any string.
KeyEnv == {Absent, Param("coastal"), Param("coastal|NaN")}
KeyPop == {Absent, Param(<<"x">>)}
KeyNrg == {Absent, Param("wind"), Param("60|solar")}

LoadKeyURL ==
  \E env \in KeyEnv, pop \in KeyPop, nrg \in KeyNrg :
    LoadParams(env, pop, nrg, Absent, Absent, Absent)

\* The page is left and loaded again: every variable of the script starts
\* over.
Reload ==
  /\ pc = "ready"
  /\ firstLoad = Null
  /\ firstLoad' = [config |-> configState, layout |-> canvas, key |-> lastConfigKey]
  /\ configState' = DefaultConfig
  /\ scores' = NoScores
  /\ pc' = "loadFromURL"
  /\ canvas' \in CanvasLayouts
  /\ lastConfigKey' = ""
  /\ staticSceneCache' = Null
  /\ rasters' = 0
  /\ call' = Null
  /\ UNCHANGED <<events, cityCtx, query, modal, toast>>
  /\ UNCHANGED <<rngVars, renderVars, loopVars, timeVars>>

NextKey ==
  \/ LoadKeyURL
  \/ InitialPreview
  \/ Reload

SpecKey == Init /\ [][NextKey]_vars

(***************************************************************************)
(* Query strings: URLSearchParams as the share button and loadFromURL use  *)
(* it. A string is a sequence of one-character strings; the values of the  *)
(* option fields are spelled out to be serialized.                         *)
(***************************************************************************)
Words == Environments \cup Energies \cup Transports

Spelling(word) ==
  CASE word = "urban"     -> <<"u", "r", "b", "a", "n">>
    [] word = "coastal"   -> <<"c", "o", "a", "s", "t", "a", "l">>
    [] word = "mountain"  -> <<"m", "o", "u", "n", "t", "a", "i", "n">>
    [] word = "desert"    -> <<"d", "e", "s", "e", "r", "t">>
    [] word = "arctic"    -> <<"a", "r", "c", "t", "i", "c">>
    [] word = "solar"     -> <<"s", "o", "l", "a", "r">>
    [] word = "fusion"    -> <<"f", "u", "s", "i", "o", "n">>
    [] word = "wind"      -> <<"w", "i", "n", "d">>
    [] word = "tidal"     -> <<"t", "i", "d", "a", "l">>
    [] word = "aerial"    -> <<"a", "e", "r", "i", "a", "l">>
    [] word = "hyperloop" -> <<"h", "y", "p", "e", "r", "l", "o", "o", "p">>
    [] word = "teleport"  -> <<"t", "e", "l", "e", "p", "o", "r", "t">>

\* The option value a string spells ("?" for any other string).
Word(str) ==
  IF \E w \in Words : Spelling(w) = str
  THEN CHOOSE w \in Words : Spelling(w) = str
  ELSE "?"

\* String(x) of a number x that is an integer or NaN.
NumberChars(x) ==
  IF IsNaN(x) THEN <<"N", "a", "N">>
  ELSE IF IntOf(x) < 0 THEN <<"-">> \o Digits(-IntOf(x))
  ELSE Digits(IntOf(x))

\* application/x-www-form-urlencoded: a space becomes "+", a character
\* outside the unreserved set its percent code.
Escaped == {"&", "=", "+", "%", "|", "?"}
PercentCode(ch) ==
  CASE ch = "&" -> <<"%", "2", "6">>
    [] ch = "=" -> <<"%", "3", "D">>
    [] ch = "+" -> <<"%", "2", "B">>
    [] ch = "%" -> <<"%", "2", "5">>
    [] ch = "|" -> <<"%", "7", "C">>
    [] ch = "?" -> <<"%", "3", "F">>

EncodeChar(ch) ==
  IF ch = " " THEN <<"+">> ELSE IF ch \in Escaped THEN PercentCode(ch) ELSE <<ch>>

RECURSIVE Encode(_)
Encode(str) == IF str = <<>> THEN <<>> ELSE EncodeChar(Head(str)) \o Encode(Tail(str))

RECURSIVE Decode(_)
Decode(str) ==
  IF str = <<>> THEN <<>>
  ELSE IF Head(str) = "+" THEN <<" ">> \o Decode(Tail(str))
  ELSE IF Len(str) >= 3 /\ \E ch \in Escaped : PercentCode(ch) = SubSeq(str, 1, 3)
  THEN <<CHOOSE ch \in Escaped : PercentCode(ch) = SubSeq(str, 1, 3)>>
         \o Decode(SubSeq(str, 4, Len(str)))
  ELSE <<Head(str)>> \o Decode(Tail(str))

\* params.toString(): name=value pairs joined by "&".
RECURSIVE Serialize(_)
Serialize(params) ==
  IF params = <<>> THEN <<>>
  ELSE Encode(Head(params).key) \o <<"=">> \o Encode(Head(params).value)
         \o (IF Len(params) > 1 THEN <<"&">> \o Serialize(Tail(params)) ELSE <<>>)

\* The positions of ch in str, and the k-th piece of str between them.
Positions(str, ch) == {i \in 1..Len(str) : str[i] = ch}

Piece(str, seps, k) ==
  SubSeq(str,
         IF k = 1 THEN 1
         ELSE 1 + CHOOSE i \in seps : Cardinality({j \in seps : j < i}) = k - 2,
         IF k > Cardinality(seps) THEN Len(str)
         ELSE (CHOOSE i \in seps : Cardinality({j \in seps : j < i}) = k - 1) - 1)

\* One name=value piece of a query string: split at the first "=".
ParsePair(piece) ==
  IF Positions(piece, "=") = {}
  THEN [key |-> Decode(piece), value |-> <<>>]
  ELSE [key   |-> Decode(Piece(piece, Positions(piece, "="), 1)),
        value |-> Decode(SubSeq(piece, Len(Piece(piece, Positions(piece, "="), 1)) + 2,
                                Len(piece)))]

\* new URLSearchParams(search) for a search string without its "?".
ParseQuery(search) ==
  IF search = <<>> THEN <<>>
  ELSE [k \in 1..(Cardinality(Positions(search, "&")) + 1) |->
          ParsePair(Piece(search, Positions(search, "&"), k))]

\* params.has(key) and params.get(key): the first pair called key.
Get(pairs, key) ==
  IF \E i \in DOMAIN pairs : pairs[i].key = key
  THEN Param(pairs[CHOOSE i \in DOMAIN pairs :
                     /\ pairs[i].key = key
                     /\ \A j \in DOMAIN pairs : pairs[j].key = key => i <= j].value)
  ELSE Absent

\* The value of an option parameter as configState keeps it.
WordParam(p) == IF p.has THEN Param(Word(p.value)) ELSE Absent

\* str.trim()
RECURSIVE TrimEnd(_)
TrimEnd(str) ==
  IF str # <<>> /\ str[Len(str)] \in WhiteSpace
  THEN TrimEnd(SubSeq(str, 1, Len(str) - 1))
  ELSE str

Trim(str) == TrimEnd(SkipWhiteSpace(str))

\* The keys of the share link.
QueryKeys ==
  [environment |-> <<"e", "n", "v">>, population |-> <<"p", "o", "p">>,
   energy |-> <<"n", "r", "g">>, greenery |-> <<"g", "r", "n">>,
   transport |-> <<"t", "r", "n">>, tech |-> <<"t", "c", "h">>,
   name |-> <<"n", "a", "m", "e">>]

\* new URLSearchParams({env: ..., pop: ..., nrg: ..., grn: ..., trn: ...,
\* tch: ..., name: cityNameInput.value.trim() || ''})
ShareParamsSwapped(c, name) ==
  <<[key |-> QueryKeys.environment, value |-> Spelling(c.environment)],
    [key |-> QueryKeys.population, value |-> NumberChars(c.population)],
    [key |-> QueryKeys.energy, value |-> Spelling(c.energy)],
    [key |-> QueryKeys.greenery, value |-> NumberChars(c.tech)],
    [key |-> QueryKeys.transport, value |-> Spelling(c.transport)],
    [key |-> QueryKeys.tech, value |-> NumberChars(c.greenery)],
    [key |-> QueryKeys.name, value |-> Trim(name)]>>
ShareParams(c, name) ==
  <<[key |-> QueryKeys.environment, value |-> Spelling(c.environment)],
    [key |-> QueryKeys.population, value |-> NumberChars(c.population)],
    [key |-> QueryKeys.energy, value |-> Spelling(c.energy)],
    [key |-> QueryKeys.greenery, value |-> NumberChars(c.greenery)],
    [key |-> QueryKeys.transport, value |-> Spelling(c.transport)],
    [key |-> QueryKeys.tech, value |-> NumberChars(c.tech)],
    [key |-> QueryKeys.name, value |-> Trim(name)]>>

(***************************************************************************)
(* SpecShare: the share button on a page with a valid Configuration, then  *)
(* a load of the page from the link (whole, or with one parameter cut      *)
(* out).                                                                   *)
(***************************************************************************)
\* Values of the city name input.
CityNames == {<<>>, <<" ", "N", "e", "o", " ", "&", " ", "1", "=", "2", " ">>}

ShareConfigs ==
  [environment : Environments, population : {FromInt(7), FromInt(100)},
   energy : Energies, greenery : {FromInt(0), FromInt(45)},
   transport : Transports, tech : {FromInt(100)}]

InitShare ==
  /\ configState \in ShareConfigs
  /\ scores = NoScores
  /\ pc = "initialPreview"
  /\ events = 0
  /\ canvas \in CanvasLayouts
  /\ lastConfigKey = ""
  /\ staticSceneCache = Null
  /\ rasters = 0
  /\ call = Null
  /\ RngIdle
  /\ RenderIdle
  /\ LoopIdle
  /\ TimeIdle
  /\ UiIdle

\* The click handler of the share button: the link is built and copied, and
\* the toast shown.
ShareClick ==
  /\ pc = "ready"
  /\ events < MaxEvents
  /\ \E name \in CityNames : query' = Serialize(ShareParams(configState, name))
  /\ ShowToast(timers)
  /\ events' = events + 1
  /\ UNCHANGED <<cityCtx, firstLoad, modal>>
  /\ UNCHANGED <<configState, scores, pc, canvas, lastConfigKey, staticSceneCache,
                 rasters, call>>
  /\ UNCHANGED <<inView, frames, cityAnimFrame, frameIds>>
  /\ UNCHANGED <<clock, resizeTimer, lastCityFrame, lastResize, rngVars, renderVars>>

\* The keys a link can lose before it is opened (none: "name" stands for a
\* link opened whole, the name not being a field of the Configuration).
CutKeys == {"environment", "population", "energy", "greenery", "transport", "tech", "name"}

\* The link is opened: the page loads with the query string of the link,
\* without the parameter cut out of it. firstLoad keeps the Configuration
\* that was shared.
OpenLink ==
  /\ pc = "ready"
  /\ query # Null
  /\ firstLoad = Null
  /\ \E cut \in CutKeys :
       /\ query' = Serialize(SelectSeq(ParseQuery(query),
                                       LAMBDA p : p.key # QueryKeys[cut]))
       /\ firstLoad' = [config |-> configState, cut |-> cut]
  /\ configState' = DefaultConfig
  /\ scores' = NoScores
  /\ pc' = "loadFromURL"
  /\ events' = 0
  /\ canvas' \in CanvasLayouts
  /\ lastConfigKey' = ""
  /\ staticSceneCache' = Null
  /\ rasters' = 0
  /\ call' = Null
  /\ toast' = Null
  /\ timers' = {}
  /\ timerIds' = 0
  /\ UNCHANGED <<cityCtx, modal>>
  /\ UNCHANGED <<inView, frames, cityAnimFrame, frameIds>>
  /\ UNCHANGED <<clock, resizeTimer, lastCityFrame, lastResize, rngVars, renderVars>>

\* loadFromURL() on the page opened from the link.
LoadFromQuery ==
  /\ query # Null
  /\ \E pairs \in {ParseQuery(query)} :
       LoadParams(WordParam(Get(pairs, QueryKeys.environment)),
                  Get(pairs, QueryKeys.population),
                  WordParam(Get(pairs, QueryKeys.energy)),
                  Get(pairs, QueryKeys.greenery),
                  WordParam(Get(pairs, QueryKeys.transport)),
                  Get(pairs, QueryKeys.tech))

NextShare ==
  \/ InitialPreview
  \/ ShareClick
  \/ OpenLink
  \/ LoadFromQuery

SpecShare == InitShare /\ [][NextShare]_vars

(***************************************************************************)
(* SpecModal: the scenario modal, its buttons and its timers.              *)
(***************************************************************************)
MaxClicks == 3      \* clicks on the scenario cards and in the modal

\* The page after loadFromURL with no query string: the initial timer
\* pending, the modal as the document has it (hidden, not active).
InitModal ==
  /\ configState = DefaultConfig
  /\ scores = NoScores
  /\ pc = "initialPreview"
  /\ events = 0
  /\ canvas \in CanvasLayouts
  /\ lastConfigKey = ""
  /\ staticSceneCache = Null
  /\ rasters = 0
  /\ call = Null
  /\ RngIdle
  /\ RenderIdle
  /\ timers = {[id |-> 1, name |-> "initial", due |-> 100]}
  /\ inView = "unreported"
  /\ frames = {}
  /\ cityAnimFrame = 0
  /\ frameIds = 0
  /\ clock = 0
  /\ timerIds = 1
  /\ resizeTimer = 0
  /\ lastCityFrame = 0
  /\ lastResize = Null
  /\ cityCtx = TRUE
  /\ firstLoad = Null
  /\ query = Null
  /\ toast = Null
  /\ modal = [active |-> FALSE, hidden |-> TRUE, overflow |-> ""]

\* openScenarioModal(key) for a scenario of scenarioData: a click or a key
\* press on a scenario card.
OpenScenarioModal ==
  /\ pc = "ready"
  /\ events < MaxClicks
  /\ modal' = [active |-> TRUE, hidden |-> FALSE, overflow |-> "hidden"]
  /\ events' = events + 1
  /\ UNCHANGED <<configState, scores, pc, canvas, lastConfigKey, staticSceneCache,
                 rasters, call>>
  /\ UNCHANGED <<cityCtx, firstLoad, query, toast>>
  /\ UNCHANGED <<rngVars, renderVars, loopVars, timeVars>>

\* closeModal(), in a handler that sets the timers `more` after it.
CloseModal(more) ==
  /\ modal' = [modal EXCEPT !.active = FALSE, !.overflow = ""]
  /\ timers' = SetTimeout(timers, "hide", 500) \cup more
  /\ timerIds' = timerIds + 1 + Cardinality(more)

\* A click on the close button or on the backdrop of the modal while it is
\* displayed, or Escape while it is active.
CloseClick ==
  /\ pc = "ready"
  /\ events < MaxClicks
  /\ ~modal.hidden
  /\ CloseModal({})
  /\ events' = events + 1
  /\ UNCHANGED <<configState, scores, pc, canvas, lastConfigKey, staticSceneCache,
                 rasters, call>>
  /\ UNCHANGED <<cityCtx, firstLoad, query, toast>>
  /\ UNCHANGED <<inView, frames, cityAnimFrame, frameIds>>
  /\ UNCHANGED <<clock, resizeTimer, lastCityFrame, lastResize, rngVars, renderVars>>

\* configBtn.onclick: closeModal(), then the scroll to the configurator
\* after 300 ms.
ConfigureClick ==
  /\ pc = "ready"
  /\ events < MaxClicks
  /\ ~modal.hidden
  /\ CloseModal({[id |-> timerIds + 2, name |-> "scroll", due |-> clock + 300]})
  /\ events' = events + 1
  /\ UNCHANGED <<configState, scores, pc, canvas, lastConfigKey, staticSceneCache,
                 rasters, call>>
  /\ UNCHANGED <<cityCtx, firstLoad, query, toast>>
  /\ UNCHANGED <<inView, frames, cityAnimFrame, frameIds>>
  /\ UNCHANGED <<clock, resizeTimer, lastCityFrame, lastResize, rngVars, renderVars>>

\* () => { modal.hidden = true; }
HideTimer ==
  /\ pc = "ready"
  /\ \E t \in Due("hide") :
       /\ modal' = [modal EXCEPT !.hidden = TRUE]
       /\ timers' = timers \ {t}
  /\ UNCHANGED <<cityCtx, firstLoad, query, toast>>
  /\ UNCHANGED <<inView, frames, cityAnimFrame, frameIds, timeVars, appVars, rngVars, renderVars>>

\* () => { document.getElementById('configurator').scrollIntoView(...) }
ScrollTimer ==
  /\ pc = "ready"
  /\ \E t \in Due("scroll") : timers' = timers \ {t}
  /\ UNCHANGED <<inView, frames, cityAnimFrame, frameIds, timeVars, uiVars, appVars,
                 rngVars, renderVars>>

NextModal ==
  \/ InitialPreview
  \/ InitialTimer
  \/ OpenScenarioModal
  \/ CloseClick
  \/ ConfigureClick
  \/ HideTimer
  \/ ScrollTimer
  \/ Tick

SpecModal == InitModal /\ [][NextModal]_vars

(***************************************************************************)
(* SpecToast: the callers of showToast on the page with its canvas: the    *)
(* export and the share button, and the timers.                            *)
(***************************************************************************)
NextToast ==
  \/ InitialPreview
  \/ InitialTimer
  \/ ExportClick
  \/ ShareClick
  \/ ToastTimer
  \/ Tick

SpecToast == InitModal /\ [][NextToast]_vars

(***************************************************************************)
(* Properties of the rendering passes (SpecRender).                        *)
(***************************************************************************)
\* C1: replay alignment. At every building index the antenna replay has
\* consumed the same draws as the static pass: the building starts at the
\* same draw (so the star loops consumed the same number), the jitter, width
\* and height are the same calls of the generator, the header and the window
\* cells consume the same number of draws, and the building ends (the antenna
\* point) at the same draw.
C1_ReplayAlignment ==
  \A i \in 1..Len(replayBuildings) :
    /\ replayBuildings[i].first = staticBuildings[i].first
    /\ replayBuildings[i].jitterAt = staticBuildings[i].jitterAt
    /\ replayBuildings[i].widthAt = staticBuildings[i].widthAt
    /\ replayBuildings[i].heightAt = staticBuildings[i].heightAt
    /\ replayBuildings[i].header = staticBuildings[i].header
    /\ replayBuildings[i].cellDraws = staticBuildings[i].cellDraws
    /\ replayBuildings[i].end = staticBuildings[i].end

\* C2: with tech > 50 the overlay draws a blinking dot for building i exactly
\* when the static pass drew an antenna for building i.
C2_DotIffAntenna ==
  \A i \in 1..Len(replayBuildings) :
    replayBuildings[i].dot <=> staticBuildings[i].antenna

\* C3: for every building with a static antenna whose dot the overlay draws,
\* the centre of the dot is the static antenna tip (bx + bw/2, by - 12*scale).
C3_DotAtAntennaTip ==
  \A i \in 1..Len(replayBuildings) :
    (staticBuildings[i].antenna /\ replayBuildings[i].dot)
      => /\ replayBuildings[i].dotX = staticBuildings[i].tipX
         /\ replayBuildings[i].dotY = staticBuildings[i].tipY

(***************************************************************************)
(* Properties of the generator (SpecRNG).                                  *)
(***************************************************************************)
Created(g) == rngSeed[g] # 0

\* The state of a generator created with seed after n calls of its own.
RECURSIVE StateAfterCalls(_, _)
StateAfterCalls(seed, n) ==
  IF n = 0 THEN seed ELSE NextState(StateAfterCalls(seed, n - 1))

\* C4: generator determinism. Two generators created with equal seeds have
\* returned identical values at every step both have made, and the state of
\* each generator is determined by its own seed and its own number of calls,
\* whatever calls were made on the other.
C4_GeneratorDeterminism ==
  /\ \A g, h \in Generators :
       (Created(g) /\ Created(h) /\ rngSeed[g] = rngSeed[h])
         => \A k \in 1..Len(rngOut[g]) :
              k <= Len(rngOut[h]) => rngOut[g][k] = rngOut[h][k]
  /\ \A g \in Generators :
       Created(g) => rngCell[StateCell(g)] = StateAfterCalls(rngSeed[g], Len(rngOut[g]))

\* Two generators with the same seed, each called at least twice.
C4_Witness ==
  /\ rngSeed["g1"] = 42
  /\ rngSeed["g2"] = 42
  /\ Len(rngOut["g1"]) >= 2
  /\ Len(rngOut["g2"]) >= 2

\* (s * 16807) mod 2147483647 with 2^31 = 1 (mod 2147483647): for
\* s = s1 * 2^16 + s0 and 16807 * s1 = a1 * 2^15 + a0 the product is congruent
\* to a1 + a0 * 2^16 + 16807 * s0.
AddMod(x, y) == IF x >= Modulus - y THEN x - (Modulus - y) ELSE x + y

LcgStep(s) ==
  AddMod(AddMod((16807 * (s \div 65536)) \div 32768,
                ((16807 * (s \div 65536)) % 32768) * 65536),
         16807 * (s % 65536))

RECURSIVE LcgAfter(_, _)
LcgAfter(seed, n) == IF n = 0 THEN seed ELSE LcgStep(LcgAfter(seed, n - 1))

\* C5: for a seed in 1..2147483646 each call sets the state to
\* (state * 16807) mod 2147483647 and returns (state - 1)/2147483646; the
\* state stays in 1..2147483646 and every returned value v has 0 <= v < 1.
C5_LcgStateAndRange ==
  \A g \in Generators :
    Created(g) =>
      /\ rngCell[StateCell(g)] = LcgAfter(rngSeed[g], Len(rngOut[g]))
      /\ rngCell[StateCell(g)] \in 1..(Modulus - 1)
      /\ \A k \in 1..Len(rngOut[g]) :
           /\ rngOut[g][k] = [q |-> 0, r |-> LcgAfter(rngSeed[g], k) - 1]
           /\ rngOut[g][k].r >= 0
           /\ rngOut[g][k].r < Divisor

\* A generator whose state reached 2147483646, the largest state, and one
\* whose state reached 1, the smallest.
C5_Witness ==
  /\ \E g \in Generators :
       Created(g) /\ Len(rngOut[g]) >= 1 /\ rngCell[StateCell(g)] = Modulus - 1
  /\ \E g \in Generators :
       Created(g) /\ Len(rngOut[g]) >= 1 /\ rngCell[StateCell(g)] = 1

(***************************************************************************)
(* Properties of computeScores (SpecScores).                               *)
(***************************************************************************)
Metrics == {"sustainability", "innovation", "quality", "resilience", "livability"}

ScoreRecord(s, i, q, r, l) ==
  [sustainability |-> FromInt(s), innovation |-> FromInt(i), quality |-> FromInt(q),
   resilience |-> FromInt(r), livability |-> FromInt(l)]

\* C6: score bounds. For a valid configuration each of the four metrics and
\* livability is an integer in [0, 100].
C6_ScoreBounds ==
  pc = "scored" =>
    \A m \in Metrics :
      /\ IsInteger(scores[m])
      /\ IntOf(scores[m]) >= 0
      /\ IntOf(scores[m]) <= 100

\* A configuration whose sustainability sum exceeds 100 (60 + 22 + 15 + 12),
\* scored.
C6_Witness ==
  /\ pc = "scored"
  /\ configState.greenery = FromInt(100)
  /\ configState.population = FromInt(0)
  /\ configState.energy = "tidal"
  /\ configState.environment = "coastal"
  /\ scores.sustainability = FromInt(100)

\* The stated formulas in exact arithmetic on a valid configuration c, every
\* weighted sum scaled to an integer numerator; round is floor(x + 1/2).
ExactScores(c) ==
  LET g  == IntOf(c.greenery)
      p  == IntOf(c.population)
      t  == IntOf(c.tech)
      eb == energyBonus[c.energy]
      tb == transportBonus[c.transport]
      vb == envBonus[c.environment]
      cap(n) == IF n > 100 THEN 100 ELSE n
      s  == cap((60 * g + 100 * eb + 15 * (100 - p) + 100 * vb + 50) \div 100)
      i  == cap((7 * t + 10 * tb + 3 * eb + 5) \div 10)
      q  == cap((30 * g + 25 * (100 - p) + 20 * t + 150 * vb + 50) \div 100)
      r  == cap((2 * (100 - p) + 2 * g + 3 * t + 10 * eb + 100 + 5) \div 10)
  IN  ScoreRecord(s, i, q, r, (s + i + q + r + 2) \div 4)

\* C7: for every valid configuration computeScores returns exactly the
\* values of the stated formulas (round before the cap, livability the
\* rounded mean of the four rounded metrics) and leaves the configuration
\* as it was.
C7_ScoresMatchFormulas ==
  pc = "scored" => scores = ExactScores(configState)

\* C8 as amended: the startup configuration {urban, 60, solar, 45, aerial, 75}
\* scores sustainability 58, innovation 69, quality 46, resilience 70 and
\* livability 61.
C8_DefaultScores ==
  (pc = "scored" /\ configState = DefaultConfig) => scores = ScoreRecord(58, 69, 46, 70, 61)

\* C8 as stated: the startup configuration scores sustainability 78,
\* innovation 69, quality 47, resilience 57 and livability 63.
C8_DefaultScoresAsStated ==
  (pc = "scored" /\ configState = DefaultConfig) => scores = ScoreRecord(78, 69, 47, 57, 63)

\* The startup configuration, scored.
C8_Witness == pc = "scored" /\ configState = DefaultConfig /\ scores # NoScores

(***************************************************************************)
(* Properties of the configurator (Spec).                                  *)
(***************************************************************************)
InRange(x) == IsInteger(x) /\ IntOf(x) >= 0 /\ IntOf(x) <= 100

\* C9: unrecognized category fallback. With valid numeric fields, whatever
\* the environment, energy and transport strings are, the scores shown are
\* numbers; an unrecognized environment is scored as one whose bonus is 5
\* (urban), an unrecognized transport as one whose bonus is 10 (aerial).
C9_UnrecognizedFallback ==
  (/\ scores # NoScores
   /\ InRange(configState.population)
   /\ InRange(configState.greenery)
   /\ InRange(configState.tech))
    => /\ \A m \in Metrics : IsInteger(scores[m])
       /\ configState.environment \notin Environments
            => scores.quality = quality([configState EXCEPT !.environment = "urban"])
       /\ configState.transport \notin Transports
            => scores.innovation = innovation([configState EXCEPT !.transport = "aerial"])

\* C10: configuration invariant. In every reachable state population,
\* greenery and tech are integers in [0, 100] and environment, energy and
\* transport are each one of their enumerated values.
C10_ConfigurationInvariant ==
  /\ InRange(configState.population)
  /\ InRange(configState.greenery)
  /\ InRange(configState.tech)
  /\ configState.environment \in Environments
  /\ configState.energy \in Energies
  /\ configState.transport \in Transports

(***************************************************************************)
(* Properties of the scene cache (SpecCache).                              *)
(***************************************************************************)
\* A step in which renderCityCanvas was called: call holds the previous call
\* and call' this one.
SecondCall == call # Null /\ call' # call

\* The pixel size renderCityCanvas computes from a layout (w, h).
PixelSize(cv) == <<cv.offsetWidth * cv.dpr, cv.offsetHeight * cv.dpr>>

\* C11: cache hit. Of two consecutive calls of renderCityCanvas with the same
\* Configuration and the same canvas layout, the second not made by the
\* resize handler, the second does not invoke renderStaticScene and draws the
\* raster object the first drew.
C11_CacheHit ==
  [][(/\ SecondCall
      /\ ~call'.resize
      /\ call'.config = call.config
      /\ call'.layout = call.layout)
     => (~call'.invoked /\ call'.blit = call.blit)]_vars

\* The fields of the Configuration.
ConfigFields == {"environment", "population", "energy", "greenery", "transport", "tech"}

\* Configurations c and d differ in exactly one field.
SingleFieldChanged(c, d) == Cardinality({f \in ConfigFields : c[f] # d[f]}) = 1

\* C12: cache invalidation. When between two consecutive calls of
\* renderCityCanvas a single Configuration field changed value, or the pixel
\* width or height the raster is rendered at changed, the second call invokes
\* renderStaticScene and replaces the cached raster with a new one, distinct
\* from the previous, which it draws.
C12_CacheInvalidation ==
  [][(/\ SecondCall
      /\ \/ SingleFieldChanged(call.config, call'.config)
         \/ PixelSize(call'.layout) # PixelSize(call.layout))
     => (/\ call'.invoked
         /\ staticSceneCache' # staticSceneCache
         /\ staticSceneCache' # Null
         /\ staticSceneCache'.id = rasters + 1
         /\ call'.blit = staticSceneCache')]_vars

\* C13: forced invalidation on resize. Every run of the debounced resize
\* handler invokes renderStaticScene, whatever key was cached before it, and
\* when renderStaticScene returns the cache holds the new raster and the new
\* key.
C13_ResizeForcesRender ==
  [][(call' # call /\ call'.resize)
     => (/\ call'.invoked
         /\ ~StaticSceneThrows(configState)
              => (/\ staticSceneCache'.id = rasters + 1
                  /\ call'.blit = staticSceneCache'
                  /\ lastConfigKey' = getConfigKey(configState, canvas)))]_vars

\* C13 witness: the resize handler has run when the key computed after the
\* resize equals the key that was cached before it, and it rendered anew.
C13_Witness ==
  /\ call # Null
  /\ call.resize
  /\ call.found # ""
  /\ call.found = lastConfigKey
  /\ call.invoked
  /\ call.blit = staticSceneCache
  /\ staticSceneCache.id > 1

(***************************************************************************)
(* Properties of renderStaticScene (SpecRender).                           *)
(***************************************************************************)
\* The invocation of renderStaticScene of this call has returned.
StaticDone == rpc \in {"overlay", "antennas", "replayBuildings", "done"}

\* C14: static renderer determinism. A second invocation of renderStaticScene
\* for the same Configuration and canvas size draws every building from the
\* same draws as the first (same calls of the generator, same generator
\* states, same widths, heights, window counts, lit cells and antenna), and
\* returns with the main and the solar generator in the states the first
\* invocation left them in: nothing of the first invocation reaches the
\* second.
C14_StaticDeterminism ==
  (firstPass # Null /\ firstPass.scene = scene /\ rpc # "static")
    => /\ \A i \in 1..Len(staticBuildings) : staticBuildings[i] = firstPass.buildings[i]
       /\ StaticDone => /\ Len(staticBuildings) = Len(firstPass.buildings)
                        /\ staticRng = firstPass.rng
                        /\ solarRng = firstPass.solarRng

\* C14 witness: the second invocation for the same scene has returned, with
\* buildings that have lit windows and an antenna, and with solar panels.
C14_Witness ==
  /\ firstPass # Null
  /\ firstPass.scene = scene
  /\ StaticDone
  /\ \E i \in 1..Len(staticBuildings) :
       staticBuildings[i].antenna /\ staticBuildings[i].lit > 0
  /\ solarRng # Null
  /\ staticRng.n > 4 * starCount(scene)

\* C19 as stated: in both passes a window cell consumes one draw, and a lit
\* cell one more (an unlit cell one in total).
C19_OneDrawPerUnlitCell ==
  /\ \A i \in 1..Len(staticBuildings) :
       staticBuildings[i].cellDraws = staticBuildings[i].cells + staticBuildings[i].lit
  /\ \A i \in 1..Len(replayBuildings) :
       /\ replayBuildings[i].cellDraws >= replayBuildings[i].cells
       /\ replayBuildings[i].cellDraws <= 2 * replayBuildings[i].cells

\* C19: window-cell draw rule. In the static renderer's window loop every
\* cell consumes exactly two draws, lit or unlit (the first decides lit, the
\* second is the brightness of a lit cell and is discarded for an unlit one),
\* and the overlay replay consumes exactly two draws per cell.
C19_TwoDrawsPerCell ==
  /\ \A i \in 1..Len(staticBuildings) :
       /\ staticBuildings[i].cellDraws = 2 * staticBuildings[i].cells
       /\ staticBuildings[i].lit <= staticBuildings[i].cells
  /\ \A i \in 1..Len(replayBuildings) :
       replayBuildings[i].cellDraws = 2 * replayBuildings[i].cells

\* C19 witness: both passes have drawn a building that has lit and unlit
\* window cells.
C19_Witness ==
  /\ \E i \in 1..Len(staticBuildings) :
       /\ staticBuildings[i].lit > 0
       /\ staticBuildings[i].lit < staticBuildings[i].cells
  /\ \E i \in 1..Len(replayBuildings) : replayBuildings[i].cells > 0

\* The solar generator of an invocation for energy e: four draws of a
\* generator seeded 99 for solar, none otherwise.
SolarDraws(e, g) ==
  IF e = "solar" THEN g # Null /\ g.n = 4 /\ g.s = StateAfterCalls(99, 4)
  ELSE g = Null

\* C20: the solar pass never perturbs the main layout. Two invocations of
\* renderStaticScene for Configurations that differ at most in energy (same
\* canvas size) draw the main generator the same number of times with the
\* same values and give every building the same geometry, windows and
\* antenna; the solar generator is seeded 99 and drawn exactly 4 times when
\* energy is solar, and is not created otherwise.
C20_SolarPassIsolated ==
  /\ StaticDone => SolarDraws(scene.energy, solarRng)
  /\ (firstPass # Null /\ StaticDone)
       => /\ staticBuildings = firstPass.buildings
          /\ staticRng = firstPass.rng
          /\ SolarDraws(firstPass.scene.energy, firstPass.solarRng)

\* C20 witness: a solar scene and then the same scene with wind have been
\* rendered, with trees and aerial vehicles after the buildings.
C20_Witness ==
  /\ firstPass # Null
  /\ StaticDone
  /\ firstPass.scene.energy = "solar"
  /\ scene.energy = "wind"
  /\ scene.greenery > 10
  /\ scene.tech > 40
  /\ scene.transport = "aerial"
  /\ firstPass.solarRng # Null

(***************************************************************************)
(* Properties of the frame loop (SpecLoop).                                *)
(***************************************************************************)
\* C15: city frame loop lifecycle. Between callbacks, once the observer has
\* reported that the configurator left the viewport no frame callback of the
\* loop is pending (so none runs until it intersects again), and while the
\* observer's last report is that it intersects, a frame callback is pending.
C15_FrameLoopLifecycle ==
  /\ inView = "out" => frames = {}
  /\ inView = "in" => frames # {}

(***************************************************************************)
(* Properties of the handlers and the cache (SpecCache).                   *)
(***************************************************************************)
\* C16: a handler that changes the Configuration recomputes the scores from
\* the new Configuration and calls renderCityCanvas with it in the same
\* step; and whenever the script has ended and no handler runs, the scores
\* shown are computeScores of the current Configuration and lastConfigKey is
\* the key of the current Configuration (at the canvas size of the most
\* recent call of renderCityCanvas).
C16_HandlersRecompute ==
  /\ [][configState' # configState
          => /\ scores' = computeScores(configState')
             /\ call' # call
             /\ call'.config = configState']_vars
  /\ [](pc = "ready"
          => /\ scores = computeScores(configState)
             /\ lastConfigKey = getConfigKey(configState, call.layout))

\* C17: single-entry cache. Whenever lastConfigKey is non-empty the cached
\* raster is the one rendered when that key was computed; and the cache
\* changes only by being replaced with the raster of a new complete render
\* (a new object), together with lastConfigKey getting that render's key.
C17_SingleEntryCache ==
  /\ [](lastConfigKey # ""
          => (staticSceneCache # Null /\ staticSceneCache.key = lastConfigKey))
  /\ [][staticSceneCache' # staticSceneCache
          => /\ staticSceneCache' = NewRaster(configState', canvas')
             /\ rasters' = rasters + 1
             /\ lastConfigKey' = staticSceneCache'.key]_vars

\* C17 witness: the cached raster has been replaced, after a resize had
\* cleared the key.
C17_Witness ==
  /\ lastConfigKey # ""
  /\ staticSceneCache # Null
  /\ staticSceneCache.id > 1
  /\ call.resize

\* C18: no stale raster. The raster a call of renderCityCanvas passes to
\* drawImage was rendered for the Configuration of that call and at the
\* pixel width and height (w, h) that call computed.
C18_NoStaleRaster ==
  (call # Null /\ call.blit # Null)
    => /\ call.blit.config = call.config
       /\ <<call.blit.w, call.blit.h>> = PixelSize(call.layout)

\* The main-generator draws of the first k iterations of the building loop:
\* 3 for the head of each building plus the draws of its window cells.
RECURSIVE BuildingDraws(_, _)
BuildingDraws(bs, k) ==
  IF k = 0 THEN 0 ELSE 3 + bs[k].cellDraws + BuildingDraws(bs, k - 1)

\* The draws of the tree loop and of the vehicle loop for scene sc.
TreeDraws(sc) == IF sc.greenery > 10 THEN 4 * (sc.greenery \div 5) ELSE 0
VehicleDraws(sc) ==
  IF sc.transport = "aerial" /\ sc.tech > 40
  THEN 2 * (IF (3 * sc.tech) \div 100 < 3 THEN (3 * sc.tech) \div 100 ELSE 3)
  ELSE 0

\* C21: draw consumption is scoped to the feature drawn. One invocation of
\* renderStaticScene draws the main generator 4 * floor(15 + tech * 0.2)
\* times for the stars, then for each of the floor(6 + population * 0.15)
\* buildings 3 times for its head plus its window-cell draws, then
\* 4 * floor(greenery * 0.2) times only if greenery > 10, then
\* 2 * min(floor(tech * 0.03), 3) times only if transport is aerial and
\* tech > 40; the hyperloop, teleport, fusion and wind passes and every pass
\* whose condition is false draw nothing from it.
C21_DrawsScopedToFeature ==
  /\ rpc = "staticBuildings"
       => /\ staticRng.n = 4 * (15 + scene.tech \div 5)
                             + BuildingDraws(staticBuildings, Len(staticBuildings))
          /\ \A i \in 1..Len(staticBuildings) :
               /\ staticBuildings[i].header = 3
               /\ staticBuildings[i].end - staticBuildings[i].first
                    = 3 + staticBuildings[i].cellDraws
  /\ StaticDone
       => /\ Len(staticBuildings) = 6 + (3 * scene.population) \div 20
          /\ staticRng.n = 4 * (15 + scene.tech \div 5)
                             + BuildingDraws(staticBuildings, Len(staticBuildings))
                             + TreeDraws(scene) + VehicleDraws(scene)

\* C21 witness: an invocation has returned for a scene that has trees, no
\* aerial vehicles although tech > 40 (hyperloop), and wind turbines, after
\* buildings with window cells.
C21_Witness ==
  /\ StaticDone
  /\ scene.greenery > 10
  /\ scene.tech > 40
  /\ scene.transport = "hyperloop"
  /\ scene.energy = "wind"
  /\ staticRng.n > 4 * (15 + scene.tech \div 5) + TreeDraws(scene)
  /\ \E i \in 1..Len(staticBuildings) : staticBuildings[i].cellDraws > 0

\* C23: hyperloop capsule on the tube. For each of the 2 tubes and every
\* timestamp the capsule's x is an offset modulo the canvas width, so
\* 0 <= x < w, and the curve y used for the capsule at that x equals the y of
\* the static tube arc (the quadratic curve from (0, py) to (w, py) with
\* control point (w / 2, py - 15 * scale)) at the same x.
C23_CapsuleOnTube ==
  \A i \in 1..Len(capsules) :
    /\ capsules[i].cx >= 0
    /\ capsules[i].cx < scene.w
    /\ capsules[i].rise = TubeRise(scene, capsules[i].cx)

(***************************************************************************)
(* Properties of the timers and the frame loop (SpecLoop, SpecCache,       *)
(* SpecNoSurface).                                                         *)
(***************************************************************************)
\* C24: loop throttling. Any two consecutive calls of renderCityCanvas made
\* by the frame loop have frame timestamps at least 50 apart (the first is
\* at least 50 after 0, the initial lastCityFrame); a frame callback that
\* arrives less than 50 after the last loop-driven render draws nothing and
\* leaves lastCityFrame alone but still requests the next callback; a
\* callback that renders stamps lastCityFrame with its timestamp. The
\* observer's reports never touch lastCityFrame, so this holds across
\* leaving and re-entering the viewport.
C24_LoopThrottling ==
  [][ /\ lastCityFrame' # lastCityFrame
           => /\ lastCityFrame' - lastCityFrame >= 50
              /\ lastCityFrame' = clock
              /\ call' # call
              /\ frames \ frames' # {}
      /\ (frames \ frames' # {} /\ inView' = inView)
           => IF clock - lastCityFrame < 50
              THEN /\ call' = call
                   /\ lastCityFrame' = lastCityFrame
                   /\ cityAnimFrame' \in frames' \ frames
              ELSE /\ call' # call
                   /\ lastCityFrame' = clock
    ]_vars

\* C24 witness: the loop rendered the frame of time 60 and a later callback,
\* of time 100, has run and requested the next one.
C24_Witness ==
  /\ lastCityFrame = 60
  /\ clock = 100
  /\ inView = "in"
  /\ frameIds >= 3
  /\ cityAnimFrame \in frames
  /\ call # Null
  /\ ~call.resize

\* C27: at most one city frame callback is pending at any time and
\* cityAnimFrame holds the id of that pending callback, whatever the observer
\* reports between frame callbacks; so the cancelAnimationFrame(cityAnimFrame)
\* of a leaving entry leaves no callback pending.
C27_SinglePendingFrame ==
  /\ Cardinality(frames) <= 1
  /\ frames # {} => frames = {cityAnimFrame}
  /\ inView = "out" => frames = {}

\* The pending timers of the debounced resize listener.
ResizeTimers == {t \in timers : t.name = "resize"}

\* C26: resize batching. At most one debounce timer is pending at any time;
\* after a resize event the handler is pending for the time 200 ms after the
\* last event until it has run, and it runs once: a run of the
\* invalidate-and-render handler happens 200 ms after the last resize event,
\* is the first since that event and leaves no debounce timer pending. A
\* handler that changes the Configuration renders in the same step, without
\* a timer, also while a debounce timer is pending.
C26_ResizeBatching ==
  /\ [](/\ Cardinality(ResizeTimers) <= 1
        /\ lastResize # Null
             => /\ lastResize.runs <= 1
                /\ lastResize.runs = 0
                     => \E t \in ResizeTimers : t.due = lastResize.at + 200
                /\ lastResize.runs = 1 => ResizeTimers = {})
  /\ [][ /\ (call' # call /\ call'.resize)
              => /\ lastResize # Null
                 /\ clock = lastResize.at + 200
                 /\ lastResize'.runs = 1
         /\ configState' # configState
              => /\ call' # call
                 /\ call'.config = configState'
                 /\ ~call'.resize
                 /\ timers' = timers
                 /\ clock' = clock
       ]_vars

\* C26 witness: two resize events of one burst (both within the first 100 ms)
\* have been handled by one run of the handler, 200 ms after the second.
C26_Witness ==
  /\ lastResize # Null
  /\ lastResize.runs = 1
  /\ lastResize.at > 0
  /\ lastResize.at <= 100
  /\ timerIds = 3
  /\ clock = lastResize.at + 200
  /\ call.resize

\* C25: a null surface is a no-op. Without a 2D context renderCityCanvas
\* returns without rendering and leaves staticSceneCache and lastConfigKey as
\* they were at startup; with the canvas absent no initial timer, no resize
\* listener and no frame loop is ever installed; and the scores are those of
\* the current Configuration all the same.
C25_NullSurfaceNoOp ==
  /\ ~cityCtx
       => /\ lastConfigKey = ""
          /\ staticSceneCache = Null
          /\ rasters = 0
          /\ call # Null => (~call.invoked /\ call.blit = Null)
  /\ canvas = Null
       => /\ timers = {}
          /\ timerIds = 0
          /\ lastResize = Null
          /\ frames = {}
          /\ frameIds = 0
  /\ pc = "ready" => scores = computeScores(configState)

\* C25 witness: on a page without the canvas a handler has changed the
\* Configuration and called renderCityCanvas, and time has passed.
C25_Witness ==
  /\ canvas = Null
  /\ ~cityCtx
  /\ pc = "ready"
  /\ events > 0
  /\ call # Null
  /\ configState.energy = "wind"
  /\ scores # NoScores
  /\ clock > 0

(***************************************************************************)
(* Properties of the query string (SpecKey, SpecShare).                    *)
(***************************************************************************)
\* The Configuration and the CSS size of the canvas: the components of a
\* cache key.
KeyTuple(c, cv) == <<c, cv.offsetWidth, cv.offsetHeight>>

\* C22: cache key injectivity. Two reachable (Configuration, canvas size)
\* tuples that differ in a component have different keys: the key the
\* initial preview of a load stores differs from the key of an earlier load
\* unless Configuration and canvas size are the same.
C22_KeyInjective ==
  (firstLoad # Null /\ pc = "ready"
     /\ KeyTuple(configState, canvas) # KeyTuple(firstLoad.config, firstLoad.layout))
    => lastConfigKey # firstLoad.key

(***************************************************************************)
(* Properties of the share link, the modal and the toast.                  *)
(***************************************************************************)

\* C28: loading at startup the query string the share action produced for a
\* valid Configuration gives every field the value it had when shared, and a
\* field whose key is missing from the query string keeps its default.
C28_ShareLoadRoundTrip ==
  (firstLoad # Null /\ pc \in {"initialPreview", "ready"}) =>
    \A f \in ConfigFields :
      configState[f] = IF firstLoad.cut = f THEN DefaultConfig[f] ELSE firstLoad.config[f]

\* A shared Configuration with no field at its default and a name with
\* escaped characters, loaded from a link that lost its tch parameter.
C28_Witness ==
  /\ firstLoad # Null
  /\ pc = "initialPreview"
  /\ firstLoad.cut = "tech"
  /\ \A f \in ConfigFields : firstLoad.config[f] # DefaultConfig[f]
  /\ \A f \in ConfigFields \ {"tech"} : configState[f] = firstLoad.config[f]
  /\ configState.tech = DefaultConfig.tech
  /\ \E i \in DOMAIN query : query[i] = "%"

\* C29: an active modal with page scrolling locked is never hidden.
C29_ModalVisible ==
  (modal.active /\ modal.overflow = "hidden") => ~modal.hidden

\* C30: the toast stays shown for 3000 ms after every call of showToast, and
\* one toast element at most is created.
C30_ToastDisplayTime ==
  toast # Null =>
    /\ toast.created <= 1
    /\ clock - toast.calledAt < 3000 => toast.show

====
